---- MODULE Spec2Model ----
(***************************************************************************)
(* Model of the consensus vote list (voteList.Verify, newVoteList,         *)
(* NewVoteListFromBytes), of the signed-message base (signedBase) and of   *)
(* the transition life cycle of the service manager of goloop, and of the  *)
(* IISS account state (icstate.Account).                                   *)
(*                                                                         *)
(* Optional values (Go nil pointers and nil slices) are sequences of       *)
(* length 0 or 1: <<>> is nil, <<x>> is a present x.                       *)
(***************************************************************************)
EXTENDS Integers, Sequences, FiniteSets, TLC

VARIABLES
    \* signedBase instance under test (a voteMessage) and the calls made on it
    smsg,        \* the message: payload fields, Signature, _hash, _publicKey
    sret,        \* what the last call on smsg returned
    scnt,        \* counters of the work done on smsg since construction
    \* voteList.Verify
    block,       \* the block the vote list is verified against
    vl,          \* the vote list
    vret,        \* result of the last Verify of vl against block
    \* newVoteList
    msgs,        \* the batch of vote messages
    nret,        \* result of newVoteList(msgs)
    \* Bytes / NewVoteListFromBytes
    cvl,         \* the vote list that was serialized
    wire,        \* the bytes on the wire
    cret,        \* result of NewVoteListFromBytes(wire)
    \* ServiceManager and its transitions
    trs,         \* the transitions created so far, by identifier
    sm,          \* the manager: current parent, committed state, finalize lock
    fin,         \* the Finalize call of each calling thread
    svcRet,      \* what the last Create/Propose/Execute call returned
    \* Account
    acct,        \* the account
    snap,        \* the object GetSnapshot returned and its value at that time
    aret,        \* the last call on the account or on its snapshot
    plan         \* the bonds being set and the result of GetUnbondingInfo

signedVars == <<smsg, sret, scnt>>
verifyVars == <<block, vl, vret>>
newVars    == <<msgs, nret>>
codecVars  == <<cvl, wire, cret>>
svcVars    == <<trs, sm, fin, svcRet>>
accVars    == <<acct, snap, aret, plan>>
vars       == <<smsg, sret, scnt, block, vl, vret, msgs, nret, cvl, wire, cret,
               trs, sm, fin, svcRet, acct, snap, aret, plan>>

----------------------------------------------------------------------------
(* Bounds of the model *)

MaxValidators == 4      \* validator sets have 0..MaxValidators members
MaxSigs       == 4      \* a verified vote list holds at most MaxSigs signatures
MaxCalls      == 5      \* calls made on one signed message
MaxRound      == 1      \* rounds are 0..MaxRound
VotedHeight   == 2      \* the height of the blocks above the first
MaxMsgs       == 3      \* a batch holds at most MaxMsgs vote messages
MaxWireSigs   == 2      \* a serialized vote list holds at most MaxWireSigs signatures
SigLen        == 1      \* bytes of one serialized signature
MaxTransitions == 2     \* transitions created after the initial one
MaxStake == 6           \* largest stake an account is given
MaxUnstakes == 3        \* unstakes an account starts with, at most
MaxExpire == 2          \* largest expire height of an unstake or unbond
MaxAmount == 2          \* largest amount of one unstake
MaxBond == 2            \* largest value of one bond, unbond or delegation
MaxUnbonds == 2         \* unbonds an account is let to collect

None == <<>>
Some(x) == <<x>>

----------------------------------------------------------------------------
(* Values: hashes, keys, addresses, signatures *)

voteTypePrevote   == "prevote"
voteTypePrecommit == "precommit"

\* crypto.SHA3Sum256: a digest is a function of the bytes alone and is never nil.
SHA3Sum256(bs) == [sha3 |-> bs]

\* Identities that can sign: the validators 1..MaxValidators and one outsider.
Outsider == MaxValidators + 1
Signers  == 1..Outsider
\* The key recovered from a well-formed signature made over another digest:
\* a key nobody in the model owns.
UnknownKey == Outsider + 1

PublicKeyOf(id) == [pk |-> id]

\* common.NewAccountAddressFromPublicKey
NewAccountAddressFromPublicKey(key) == [hx |-> key.pk]

AddressOf(id) == NewAccountAddressFromPublicKey(PublicKeyOf(id))

\* A signature made by `id` over digest `h`.
Sign(id, h) == [wellFormed |-> TRUE, signer |-> id, over |-> h]
\* A signature no key can be recovered from (nil or malformed bytes).
BadSignature == [wellFormed |-> FALSE, signer |-> 0, over |-> SHA3Sum256(<<>>)]

\* common.Signature.RecoverPublicKey: fails on a malformed signature; a
\* well-formed one yields the signer's key under the digest it was made over
\* and an unrelated key under any other digest.
RecoverPublicKey(sig, h) ==
    IF ~sig.wellFormed THEN [err |-> TRUE, key |-> PublicKeyOf(UnknownKey)]
    ELSE IF sig.over = h THEN [err |-> FALSE, key |-> PublicKeyOf(sig.signer)]
    ELSE [err |-> FALSE, key |-> PublicKeyOf(UnknownKey)]

----------------------------------------------------------------------------
(* signedBase: hash, publicKey, address, verify                            *)
(*                                                                         *)
(* Each operator returns the message after the call (s), the value         *)
(* returned (val) and the work the call did: nh SHA3 computations, hc      *)
(* invocations of hash(), nr recovery attempts, nok successful recoveries. *)

\* voteMessage.bytes: the canonical bytes of the signed content
\* (height, round, type, block ID, part-set ID); the signature is not part.
bytes(s) == <<s.Height, s.Round, s.Type, s.BlockID, s.BlockPartSetID>>

\* newVoteMessage: a message with nothing cached and no signature.
newVoteMessage ==
    [Height |-> 0, Round |-> 0, Type |-> voteTypePrevote, BlockID |-> <<>>,
     BlockPartSetID |-> None, Signature |-> BadSignature,
     _hash |-> None, _publicKey |-> None]

hashUncached(s) ==
    [s |-> [s EXCEPT !._hash = Some(SHA3Sum256(bytes(s)))],
     val |-> SHA3Sum256(bytes(s)), nh |-> 1, hc |-> 1]

hash(s) ==
    IF s._hash = None
    THEN [s |-> [s EXCEPT !._hash = Some(SHA3Sum256(bytes(s)))],
          val |-> SHA3Sum256(bytes(s)), nh |-> 1, hc |-> 1]
    ELSE [s |-> s, val |-> s._hash[1], nh |-> 0, hc |-> 1]

publicKeyUncached(s) ==
    LET h == hash(s)
        r == RecoverPublicKey(s.Signature, h.val)
    IN IF r.err
       THEN [s |-> h.s, val |-> None, nh |-> h.nh, hc |-> h.hc, nr |-> 1, nok |-> 0]
       ELSE [s |-> [h.s EXCEPT !._publicKey = Some(r.key)],
             val |-> Some(r.key), nh |-> h.nh, hc |-> h.hc, nr |-> 1, nok |-> 1]

publicKey(s) ==
    IF s._publicKey = None
    THEN LET h == hash(s)
             r == RecoverPublicKey(s.Signature, h.val)
         IN IF r.err
            THEN [s |-> h.s, val |-> None, nh |-> h.nh, hc |-> h.hc, nr |-> 1, nok |-> 0]
            ELSE [s |-> [h.s EXCEPT !._publicKey = Some(r.key)],
                  val |-> Some(r.key), nh |-> h.nh, hc |-> h.hc, nr |-> 1, nok |-> 1]
    ELSE [s |-> s, val |-> s._publicKey, nh |-> 0, hc |-> 0, nr |-> 0, nok |-> 0]

address(s) ==
    LET p == publicKey(s)
    IN IF p.val = None
       THEN [s |-> p.s, val |-> None, nh |-> p.nh, hc |-> p.hc, nr |-> p.nr, nok |-> p.nok]
       ELSE [s |-> p.s, val |-> Some(NewAccountAddressFromPublicKey(p.val[1])),
             nh |-> p.nh, hc |-> p.hc, nr |-> p.nr, nok |-> p.nok]

ErrNil          == "nil"
ErrBadSignature == "bad signature"

verifyNoCheck(s) ==
    LET p == publicKey(s)
    IN [s |-> p.s, val |-> ErrNil, nh |-> p.nh, hc |-> p.hc, nr |-> p.nr, nok |-> p.nok]

verify(s) ==
    LET p == publicKey(s)
    IN [s |-> p.s, val |-> IF p.val = None THEN ErrBadSignature ELSE ErrNil,
        nh |-> p.nh, hc |-> p.hc, nr |-> p.nr, nok |-> p.nok]

----------------------------------------------------------------------------
(* voteList.Verify *)

ErrUnexpectedVoters == "voters for height 1"
ErrBadVoter         == "bad voter"
ErrInsufficientVotes == "votes <= 2/3 of validators"

\* module.ValidatorList.IndexOf: the 0-based position of the address in the
\* ordered validator set, -1 when it is not a member (a nil address is none).
IndexOf(validators, a) ==
    IF a # None /\ \E i \in 1..Len(validators) : validators[i] = a[1]
    THEN (CHOOSE i \in 1..Len(validators) : validators[i] = a[1]) - 1
    ELSE -1

twoThirdsOfThirds(n) == (n \div 3) * 2

twoThirdsMajority(n) == n \div 2

\* twoThirds := validators.Len() * 2 / 3
twoThirds(n) == (n * 2) \div 3

VerifyHeight1Any(v) == ErrNil

\* The branch for the block of height 1.
VerifyHeight1(v) ==
    IF Len(v.Signatures) = 0 THEN ErrNil ELSE ErrUnexpectedVoters

\* The loop over vl.Signatures from the i-th on: msg is the one template
\* message, whose Signature is overwritten and whose caches are kept from one
\* iteration to the next. looked collects the addresses handed to IndexOf.
RECURSIVE VerifyLoop(_, _, _, _, _)
VerifyLoop(msg, sigs, i, validators, looked) ==
    IF i > Len(sigs) THEN [err |-> ErrNil, looked |-> looked]
    ELSE LET a == address([msg EXCEPT !.Signature = sigs[i]])
             index == IndexOf(validators, a.val)
         IN IF index < 0
            THEN [err |-> ErrBadVoter, looked |-> Append(looked, a.val)]
            ELSE VerifyLoop(a.s, sigs, i + 1, validators, Append(looked, a.val))

\* voteList.Verify(block): the error returned and the addresses looked up.
Verify(v, b) ==
    IF b.Height = 1
    THEN [err |-> VerifyHeight1(v), looked |-> <<>>]
    ELSE LET msg == [newVoteMessage EXCEPT !.Height = b.Height,
                                           !.Round = v.Round,
                                           !.Type = voteTypePrecommit,
                                           !.BlockID = b.ID,
                                           !.BlockPartSetID = v.BlockPartSetID]
             validators == b.NextValidators
             r == VerifyLoop(msg, v.Signatures, 1, validators, <<>>)
         IN IF r.err # ErrNil THEN r
            ELSE IF Len(v.Signatures) > twoThirds(Len(validators))
                 THEN [err |-> ErrNil, looked |-> r.looked]
                 ELSE [err |-> ErrInsufficientVotes, looked |-> r.looked]

----------------------------------------------------------------------------
(* newVoteList *)

\* bytes.Equal: equality of contents (a nil slice equals an empty one; both
\* are the empty sequence here).
bytesEqual(a, b) == a = b

RECURSIVE newVoteListLoopSkipLast(_, _, _, _)
newVoteListLoopSkipLast(ms, i, blockID, sigs) ==
    IF i > Len(ms) THEN [panic |-> FALSE, sigs |-> sigs]
    ELSE IF i < Len(ms) /\ ~bytesEqual(blockID, ms[i].BlockID)
         THEN [panic |-> TRUE, sigs |-> Append(sigs, ms[i].Signature)]
         ELSE newVoteListLoopSkipLast(ms, i + 1, blockID,
                                      Append(sigs, ms[i].Signature))

RECURSIVE newVoteListLoopReversed(_, _, _, _)
newVoteListLoopReversed(ms, i, blockID, sigs) ==
    IF i > Len(ms) THEN [panic |-> FALSE, sigs |-> sigs]
    ELSE IF ~bytesEqual(blockID, ms[i].BlockID)
         THEN [panic |-> TRUE, sigs |-> <<ms[i].Signature>> \o sigs]
         ELSE newVoteListLoopReversed(ms, i + 1, blockID,
                                      <<ms[i].Signature>> \o sigs)

\* The loop of newVoteList from the i-th message on: the signature is stored,
\* then the block ID is compared with that of the first message.
RECURSIVE newVoteListLoop(_, _, _, _)
newVoteListLoop(ms, i, blockID, sigs) ==
    IF i > Len(ms) THEN [panic |-> FALSE, sigs |-> sigs]
    ELSE IF ~bytesEqual(blockID, ms[i].BlockID)
         THEN [panic |-> TRUE, sigs |-> Append(sigs, ms[i].Signature)]
         ELSE newVoteListLoop(ms, i + 1, blockID, Append(sigs, ms[i].Signature))

\* The zero value &voteList{}.
emptyVoteList == [Round |-> 0, BlockPartSetID |-> None, Signatures |-> <<>>]

\* newVoteList(msgs): panic, or the list returned.
newVoteList(ms) ==
    IF Len(ms) > 0
    THEN LET r == newVoteListLoop(ms, 1, ms[1].BlockID, <<>>)
         IN IF r.panic
            THEN [panic |-> TRUE, vl |-> None]
            ELSE [panic |-> FALSE,
                  vl |-> Some([Round |-> ms[1].Round,
                               BlockPartSetID |-> ms[1].BlockPartSetID,
                               Signatures |-> r.sigs])]
    ELSE [panic |-> FALSE, vl |-> Some(emptyVoteList)]

----------------------------------------------------------------------------
(* vlCodec, voteList.Bytes, NewVoteListFromBytes                           *)
(*                                                                         *)
(* Bytes are numbers 0..255. In this part a signature is its serialized    *)
(* form: Some(byte string), or None for a nil signature, which does not    *)
(* serialize. The wire format is the length-prefixed binary encoding of    *)
(* (round, part-set ID, signatures).                                       *)

mpNil      == 192    \* the byte for nil
mpBin8     == 196    \* the header byte of a byte string, followed by its length
mpFixArray == 144    \* the header byte of an array of n < 16 elements is mpFixArray + n

\* A small signed integer is one byte.
EncodeInt(n) == IF n >= 0 THEN <<n>> ELSE <<256 + n>>

EncodeBytes(b) == <<mpBin8, Len(b)>> \o b

EncodePartSetID(p) ==
    IF p = None THEN <<mpNil>>
    ELSE <<mpFixArray + 2>> \o EncodeInt(p[1].Count) \o EncodeBytes(p[1].Hash)

RECURSIVE EncodeSignatures(_)
EncodeSignatures(sigs) ==
    IF sigs = <<>> THEN <<>>
    ELSE EncodeBytes(Head(sigs)[1]) \o EncodeSignatures(Tail(sigs))

\* vlCodec.MarshalToBytes(vl)
MarshalToBytes(v) ==
    IF \E i \in 1..Len(v.Signatures) : v.Signatures[i] = None
    THEN [err |-> TRUE, bs |-> <<>>]
    ELSE [err |-> FALSE,
          bs |-> <<mpFixArray + 3>> \o EncodeInt(v.Round)
                 \o EncodePartSetID(v.BlockPartSetID)
                 \o <<mpFixArray + Len(v.Signatures)>>
                 \o EncodeSignatures(v.Signatures)]

\* voteList.Bytes
Bytes(v) ==
    LET r == MarshalToBytes(v)
    IN IF r.err THEN <<>> ELSE r.bs

\* Decoders read bs from position p and return the value and the position
\* after it, or an error.
DecodeInt(bs, p) ==
    IF p > Len(bs) THEN [err |-> TRUE, val |-> 0, pos |-> p]
    ELSE IF bs[p] <= 127 THEN [err |-> FALSE, val |-> bs[p], pos |-> p + 1]
    ELSE IF bs[p] >= 224 THEN [err |-> FALSE, val |-> bs[p] - 256, pos |-> p + 1]
    ELSE [err |-> TRUE, val |-> 0, pos |-> p]

DecodeBytes(bs, p) ==
    IF p + 1 > Len(bs) \/ bs[p] # mpBin8 \/ p + 1 + bs[p + 1] > Len(bs)
    THEN [err |-> TRUE, val |-> <<>>, pos |-> p]
    ELSE [err |-> FALSE, val |-> SubSeq(bs, p + 2, p + 1 + bs[p + 1]),
          pos |-> p + 2 + bs[p + 1]]

DecodePartSetID(bs, p) ==
    IF p > Len(bs) THEN [err |-> TRUE, val |-> None, pos |-> p]
    ELSE IF bs[p] = mpNil THEN [err |-> FALSE, val |-> None, pos |-> p + 1]
    ELSE IF bs[p] # mpFixArray + 2 THEN [err |-> TRUE, val |-> None, pos |-> p]
    ELSE LET c == DecodeInt(bs, p + 1)
             h == DecodeBytes(bs, c.pos)
         IN IF c.err \/ c.val < 0 \/ h.err
            THEN [err |-> TRUE, val |-> None, pos |-> p]
            ELSE [err |-> FALSE, val |-> Some([Count |-> c.val, Hash |-> h.val]),
                  pos |-> h.pos]

\* n signatures of SigLen bytes each; on an error the ones decoded so far.
RECURSIVE DecodeSignatures(_, _, _, _)
DecodeSignatures(bs, p, n, acc) ==
    IF n = 0 THEN [err |-> FALSE, val |-> acc, pos |-> p]
    ELSE LET s == DecodeBytes(bs, p)
         IN IF s.err \/ Len(s.val) # SigLen
            THEN [err |-> TRUE, val |-> acc, pos |-> p]
            ELSE DecodeSignatures(bs, s.pos, n - 1, Append(acc, Some(s.val)))

\* vlCodec.UnmarshalFromBytes(bs, vl): the error, the list as far as it was
\* filled in, and the bytes left over.
UnmarshalFromBytes(bs) ==
    IF Len(bs) = 0 \/ bs[1] # mpFixArray + 3
    THEN [err |-> TRUE, vl |-> emptyVoteList, rest |-> bs]
    ELSE LET r == DecodeInt(bs, 2)
             ps == DecodePartSetID(bs, r.pos)
             v1 == [emptyVoteList EXCEPT !.Round = r.val]
             v2 == [v1 EXCEPT !.BlockPartSetID = ps.val]
         IN IF r.err THEN [err |-> TRUE, vl |-> emptyVoteList, rest |-> bs]
            ELSE IF ps.err THEN [err |-> TRUE, vl |-> v1, rest |-> bs]
            ELSE IF ps.pos > Len(bs) \/ bs[ps.pos] < mpFixArray
                                     \/ bs[ps.pos] > mpFixArray + 15
                 THEN [err |-> TRUE, vl |-> v2, rest |-> bs]
            ELSE LET ss == DecodeSignatures(bs, ps.pos + 1,
                                            bs[ps.pos] - mpFixArray, <<>>)
                 IN [err |-> ss.err,
                     vl |-> [v2 EXCEPT !.Signatures = ss.val],
                     rest |-> SubSeq(bs, ss.pos, Len(bs))]

NewVoteListFromBytesErrInverted(bs) ==
    LET r == UnmarshalFromBytes(bs)
    IN IF ~r.err THEN None ELSE Some(r.vl)

NewVoteListFromBytesIgnoreErr(bs) == Some(UnmarshalFromBytes(bs).vl)

\* NewVoteListFromBytes: nil on an error, the decoded list otherwise; the
\* bytes left over are dropped.
NewVoteListFromBytes(bs) ==
    LET r == UnmarshalFromBytes(bs)
    IN IF r.err THEN None ELSE Some(r.vl)

----------------------------------------------------------------------------
(* Transition and ServiceManager: the life cycle of the state transitions. *)
(* A transition is a record held by identifier in trs; identifier 0 is the *)
(* initial transition, which stands for the persisted state.               *)

\* The threads of the consensus engine that call Finalize.
Threads == {"engine1", "engine2"}

\* The batches of pending transactions a transition may carry.
TxBatches == {"txA", "txB"}
GenesisBatch == "genesis"

\* make(chan bool): a channel without buffer. sending counts the goroutines
\* blocked in a send on it, received the values handed to a receiver.
makeChan == [sending |-> 0, received |-> 0]

\* ch <- true: the sender blocks in the send until a receiver takes the value.
chanSend(ch) == [ch EXCEPT !.sending = @ + 1]

\* <-ch: possible when a sender is blocked in a send; the receiver takes the
\* value and the sender goes on.
chanCanReceive(ch) == ch.sending > 0
chanReceive(ch) == [ch EXCEPT !.sending = @ - 1, !.received = @ + 1]

\* type transitionCb struct { exeDone chan bool }; &transitionCb{make(chan bool)}
newTransitionCb == [exeDone |-> makeChan]

\* func (ts *transitionCb) OnValidate(module.Transition, error) {}
OnValidate(cb) == cb

OnExecuteSilent(cb) == cb

\* func (ts *transitionCb) OnExecute(...) { ts.exeDone <- true }: the calling
\* goroutine is left blocked in the send.
OnExecute(cb) == [cb EXCEPT !.exeDone = chanSend(@)]

ErrParentNotFinalized == "lifecycle: parent is not finalized"
ErrExecuting          == "lifecycle: executing is in progress for the height"
ErrNotInitial         == "lifecycle: not an initial transition"
ErrInvalidState       == "lifecycle: transition can not be executed"
ErrNotExecuted        == "lifecycle: transition has not completed execution"
ErrSuperseded         == "lifecycle: height is already finalized"
LifecycleErrors ==
    {ErrParentNotFinalized, ErrExecuting, ErrNotInitial, ErrInvalidState,
     ErrNotExecuted, ErrSuperseded}

\* The height-0 bootstrap transition: it is the committed state the manager
\* starts from, so it counts as finalized.
initialTransition ==
    [height |-> 0, parent |-> 0, txs |-> "none", state |-> "Finalized",
     worker |-> "none", cb |-> newTransitionCb,
     nValidate |-> 0, nExecute |-> 0, wasDiscarded |-> FALSE]

\* A transition just built on parent p, in state st. worker is the position
\* of the execution in flight; nValidate and nExecute count the callback
\* invocations; wasDiscarded records that the transition was ever discarded.
newTransition(h, p, txs, st) ==
    [height |-> h, parent |-> p, txs |-> txs, state |-> st,
     worker |-> "none", cb |-> newTransitionCb,
     nValidate |-> 0, nExecute |-> 0, wasDiscarded |-> FALSE]

Tr(ts, id) == IF id = 0 THEN initialTransition ELSE ts[id]

\* The positions of an execution that is in flight.
InFlight == {"validating", "executing"}

\* The state reached by applying the transactions of the chain that ends in
\* transition id to the persisted state: the batches in chain order.
RECURSIVE StateAfter(_, _)
StateAfter(ts, id) ==
    IF id = 0 THEN <<>>
    ELSE Append(StateAfter(ts, ts[id].parent), ts[id].txs)

\* Result(): the resulting state root, meaningful once executed.
Result(ts, id) ==
    IF Tr(ts, id).state \in {"Executed", "Finalized"}
    THEN Some(StateAfter(ts, id))
    ELSE None

proposeCheckInFlightOnly(ts, p) ==
    IF \E t \in 1..Len(ts) :
          ts[t].height = Tr(ts, p).height + 1 /\ ts[t].worker \in InFlight
    THEN ErrExecuting
    ELSE ErrNil

\* ProposeTransition fails if parent is not yet finalized or executing is
\* already in progress for that height.
proposeCheck(ts, p) ==
    IF Tr(ts, p).state # "Finalized" THEN ErrParentNotFinalized
    ELSE IF \E t \in 1..Len(ts) :
               ts[t].height = Tr(ts, p).height + 1 /\ ts[t].worker \in InFlight
         THEN ErrExecuting
         ELSE ErrNil

\* ProposeGenesisTransition is valid only on an initial transition.
proposeGenesisCheck(p) == IF p = 0 THEN ErrNil ELSE ErrNotInitial

executeCheckAny(tr) == ErrNil

\* Execute is an error unless the transition is Validated or Created, and
\* only one execution may be in flight per transition.
executeCheck(tr) ==
    IF tr.state \in {"Created", "Validated"} /\ tr.worker = "none"
    THEN ErrNil
    ELSE ErrInvalidState

supersededNever(tr) == FALSE

\* What the executing worker asks before it touches the transition: whether
\* the transition was discarded while the execution was pending.
superseded(tr) == tr.state = "Discarded"

discard(tr) == [tr EXCEPT !.state = "Discarded", !.wasDiscarded = TRUE]

lockFreeAlways(mu) == TRUE

\* The finalize lock is free.
lockFree(mu) == mu = None

finalizeCheckExecutedOnly(ts, cur, t) ==
    IF ts[t].state # "Executed" THEN ErrNotExecuted ELSE ErrNil

finalizeCheckAnyState(ts, cur, t) ==
    IF ts[t].parent = cur THEN ErrNil
    ELSE IF ts[t].height <= Tr(ts, cur).height THEN ErrSuperseded
    ELSE ErrParentNotFinalized

\* The check Finalize makes under the lock: the transition has completed
\* execution and its parent is the current parent (the last finalized one).
finalizeCheck(ts, cur, t) ==
    IF ts[t].state # "Executed" THEN ErrNotExecuted
    ELSE IF ts[t].parent = cur THEN ErrNil
    ELSE IF ts[t].height <= Tr(ts, cur).height THEN ErrSuperseded
    ELSE ErrParentNotFinalized

\* The commit: t is finalized and every other transition of its height is
\* discarded.
finalize(ts, t) ==
    [i \in 1..Len(ts) |->
        IF i = t THEN [ts[i] EXCEPT !.state = "Finalized"]
        ELSE IF ts[i].height = ts[t].height /\ ts[i].state # "Finalized"
             THEN discard(ts[i])
             ELSE ts[i]]

----------------------------------------------------------------------------
(* Account: the IISS information of one address (icstate.Account).         *)
(* Amounts are integers; a list (Unstakes, Delegations, Bonds, Unbonds) is *)
(* a sequence of records, nil being the empty sequence. An operation       *)
(* returns the account as it leaves it together with what the call         *)
(* returned: err, panic, amount, expire and the timer jobs tl.             *)

TheOwner == "owner"

Unstake(amount, expireHeight) == [Amount |-> amount, ExpireHeight |-> expireHeight]
Delegation(addr, value) == [Address |-> addr, Value |-> value]
Bond(addr, value) == [Address |-> addr, Value |-> value]
Unbond(addr, value, expire) == [Address |-> addr, Value |-> value, Expire |-> expire]

JobTypeAdd == "add"
JobTypeRemove == "remove"
TimerJobInfo(type, height) == [Type |-> type, Height |-> height]

ErrNegativeStake         == "negative stake is not allowed"
ErrNoUnbondingTimer      == "does not have unbonding timer"
ErrNoUnstakingTimer      == "does not have unstaking timer"
ErrTooManyUnstakingTimer == "has too many unstaking timer"

\* newAccount(addr)
newAccount(addr) ==
    [address |-> Some(addr), stake |-> 0, unstakes |-> <<>>,
     delegating |-> 0, delegations |-> <<>>,
     bonding |-> 0, unbonding |-> 0, bonds |-> <<>>, unbonds |-> <<>>,
     readonly |-> FALSE]

\* StateAndSnapshot: IsReadonly reports the frozen flag, freeze sets it, and
\* checkWritable panics on a frozen object (TRUE: it panics).
IsReadonly(a) == a.readonly
freeze(a) == [a EXCEPT !.readonly = TRUE]
checkWritable(a) == IsReadonly(a)

\* What an operation returns.
Returns(a, err, amount, expire, tl) ==
    [a |-> a, err |-> err, panic |-> FALSE, amount |-> amount, expire |-> expire,
     tl |-> tl]
Panics(a) ==
    [a |-> a, err |-> ErrNil, panic |-> TRUE, amount |-> 0, expire |-> 0, tl |-> <<>>]

\* The sum of the Value fields of a list: GetDelegationAmount, GetBondAmount
\* and GetUnbondAmount.
RECURSIVE SumOfValues(_)
SumOfValues(l) == IF l = <<>> THEN 0 ELSE l[1].Value + SumOfValues(Tail(l))
GetDelegationAmount(ds) == SumOfValues(ds)
GetBondAmount(bs) == SumOfValues(bs)
GetUnbondAmount(us) == SumOfValues(us)

\* The index of the first entry of l for the address, 0 when there is none.
FirstAt(l, addr) ==
    IF \E i \in 1..Len(l) : l[i].Address = addr
    THEN CHOOSE i \in 1..Len(l) :
            /\ l[i].Address = addr
            /\ \A j \in 1..(i - 1) : l[j].Address # addr
    ELSE 0

\* l without its k-th entry.
WithoutAt(l, k) == SubSeq(l, 1, k - 1) \o SubSeq(l, k + 1, Len(l))

\* Clone(): a new Account with copies of every field, not frozen.
Clone(a) == [a EXCEPT !.readonly = FALSE]

\* SetAddress(address)
SetAddress(a, addr) ==
    IF checkWritable(a) THEN Panics(a)
    ELSE Returns([a EXCEPT !.address = addr], ErrNil, 0, 0, <<>>)

\* Set(other): the address, the totals and copies of the lists of other.
Set(a, other) ==
    IF checkWritable(a) THEN Panics(a)
    ELSE Returns([other EXCEPT !.readonly = a.readonly], ErrNil, 0, 0, <<>>)

\* The fields RLPDecodeFields hands to decoder.DecodeListOf, in that order.
decodedFields ==
    <<"stake", "unstakes", "delegating", "delegations", "bonding", "unbonding",
      "bonds", "unbonds">>
ErrDecode == "decode: invalid list"

\* RLPDecodeFields(decoder): DecodeListOf decodes the fields in order out of
\* the list d the decoder holds; it stops with an error after the first k
\* fields when k is less than their number.
RLPDecodeFields(a, d, k) ==
    IF checkWritable(a) THEN Panics(a)
    ELSE Returns([f \in DOMAIN a |->
                     IF \E i \in 1..k : decodedFields[i] = f THEN d[f] ELSE a[f]],
                 IF k = Len(decodedFields) THEN ErrNil ELSE ErrDecode, 0, 0, <<>>)

\* Unstakes.increaseUnstake(v, eh, slotMax): with slotMax unstakes, the last
\* one grows by v and takes the expire height eh if that is later; else a
\* new unstake is put in, in the order of the expire heights.
increaseUnstake(us, v, eh, slotMax) ==
    IF Len(us) >= slotMax
    THEN LET last == us[Len(us)]
         IN IF eh > last.ExpireHeight
            THEN [us |-> [us EXCEPT ![Len(us)] = Unstake(last.Amount + v, eh)],
                  tl |-> <<TimerJobInfo(JobTypeRemove, last.ExpireHeight),
                           TimerJobInfo(JobTypeAdd, eh)>>]
            ELSE [us |-> [us EXCEPT ![Len(us)].Amount = @ + v], tl |-> <<>>]
    ELSE [us |-> SelectSeq(us, LAMBDA u : u.ExpireHeight <= eh)
                 \o <<Unstake(v, eh)>>
                 \o SelectSeq(us, LAMBDA u : u.ExpireHeight > eh),
          tl |-> <<TimerJobInfo(JobTypeAdd, eh)>>]

\* Unstakes.decreaseUnstake(v): v is taken from the unstakes, the last one
\* first; an unstake used up is removed and its timer with it.
RECURSIVE decreaseUnstake(_, _, _)
decreaseUnstake(us, v, tl) ==
    IF us = <<>> \/ v = 0 THEN [us |-> us, tl |-> tl]
    ELSE LET last == us[Len(us)]
         IN IF v >= last.Amount
            THEN decreaseUnstake(SubSeq(us, 1, Len(us) - 1), v - last.Amount,
                                 Append(tl, TimerJobInfo(JobTypeRemove,
                                                         last.ExpireHeight)))
            ELSE [us |-> [us EXCEPT ![Len(us)].Amount = @ - v], tl |-> tl]

\* UpdateUnstake(stakeInc, expireHeight, slotMax)
UpdateUnstake(a, stakeInc, expireHeight, slotMax) ==
    IF checkWritable(a) THEN Panics(a)
    ELSE IF stakeInc > 0
    THEN LET r == decreaseUnstake(a.unstakes, stakeInc, <<>>)
         IN Returns([a EXCEPT !.unstakes = r.us], ErrNil, 0, 0, r.tl)
    ELSE IF stakeInc < 0
    THEN LET r == increaseUnstake(a.unstakes, 0 - stakeInc, expireHeight, slotMax)
         IN Returns([a EXCEPT !.unstakes = r.us], ErrNil, 0, 0, r.tl)
    ELSE Returns(a, ErrNil, 0, 0, <<>>)

\* Clear()
Clear(a) ==
    IF checkWritable(a) THEN Panics(a)
    ELSE Returns([a EXCEPT !.address = None, !.stake = 0, !.unstakes = <<>>,
                           !.delegating = 0, !.delegations = <<>>,
                           !.bonding = 0, !.unbonding = 0,
                           !.bonds = <<>>, !.unbonds = <<>>],
                 ErrNil, 0, 0, <<>>)

SetStakeUnchecked(a, v) ==
    IF checkWritable(a) THEN Panics(a)
    ELSE Returns([a EXCEPT !.stake = v], ErrNil, 0, 0, <<>>)

\* SetStake(v)
SetStake(a, v) ==
    IF checkWritable(a) THEN Panics(a)
    ELSE IF v < 0 THEN Returns(a, ErrNegativeStake, 0, 0, <<>>)
    ELSE Returns([a EXCEPT !.stake = v], ErrNil, 0, 0, <<>>)

\* SlashStake(amount)
SlashStake(a, amount) == SetStake(a, a.stake - amount)

\* SetDelegation(ds)
SetDelegation(a, ds) ==
    IF checkWritable(a) THEN Panics(a)
    ELSE Returns([a EXCEPT !.delegations = ds,
                           !.delegating = GetDelegationAmount(ds)],
                 ErrNil, 0, 0, <<>>)

\* SetBonds(bonds)
SetBonds(a, bonds) ==
    IF checkWritable(a) THEN Panics(a)
    ELSE Returns([a EXCEPT !.bonds = bonds, !.bonding = GetBondAmount(bonds)],
                 ErrNil, 0, 0, <<>>)

unbondOfChangedBondKeepAdded(a, nb, diff, add, mod, h) ==
    LET k == FirstAt(a.unbonds, nb.Address)
    IN IF k = 0 THEN [add |-> add, mod |-> mod]
       ELSE LET ub == a.unbonds[k]
                zeroed == Append(mod, Unbond(nb.Address, 0, ub.Expire))
            IN IF diff > 0
               THEN [add |-> add,
                     mod |-> Append(zeroed, Unbond(nb.Address, ub.Value + diff, h))]
               ELSE [add |-> add, mod |-> zeroed]

\* GetUnbondingInfo, lines 295-308: the unbond of the address of a bond that
\* changed by diff; add already holds the new unbond when diff > 0.
unbondOfChangedBond(a, nb, diff, add, mod, h) ==
    LET k == FirstAt(a.unbonds, nb.Address)
    IN IF k = 0 THEN [add |-> add, mod |-> mod]
       ELSE LET ub == a.unbonds[k]
                zeroed == Append(mod, Unbond(nb.Address, 0, ub.Expire))
            IN IF diff > 0
               THEN [add |-> SubSeq(add, 1, Len(add) - 1),
                     mod |-> Append(zeroed, Unbond(nb.Address, ub.Value + diff, h))]
               ELSE [add |-> add, mod |-> zeroed]

\* GetUnbondingInfo, lines 284-311: the loop over a.bonds for the new bond
\* nb, from the j-th old bond on.
RECURSIVE oldBondsLoop(_, _, _, _, _, _, _)
oldBondsLoop(a, nb, j, add, mod, bondExist, h) ==
    IF j > Len(a.bonds) THEN [add |-> add, mod |-> mod, bondExist |-> bondExist]
    ELSE LET ob == a.bonds[j]
         IN IF nb.Address = ob.Address
            THEN LET diff == ob.Value - nb.Value
                 IN IF diff = 0
                    THEN oldBondsLoop(a, nb, j + 1, add, mod, TRUE, h)
                    ELSE LET added == IF diff > 0
                                      THEN Append(add, Unbond(nb.Address, diff, h))
                                      ELSE add
                             r == unbondOfChangedBond(a, nb, diff, added, mod, h)
                         IN [add |-> r.add, mod |-> r.mod, bondExist |-> TRUE]
            ELSE oldBondsLoop(a, nb, j + 1, add, mod, bondExist, h)

\* GetUnbondingInfo, lines 312-324: a bond to an address that had none takes
\* its value from the unbond of the address.
unbondOfNewBond(a, nb, mod) ==
    LET k == FirstAt(a.unbonds, nb.Address)
    IN IF k = 0 THEN mod
       ELSE LET ub == a.unbonds[k]
                newValue == ub.Value - nb.Value
            IN Append(mod, IF newValue > 0
                           THEN Unbond(nb.Address, newValue, ub.Expire)
                           ELSE Unbond(nb.Address, 0, ub.Expire))

\* GetUnbondingInfo, lines 282-325: the loop over the new bonds.
RECURSIVE newBondsLoop(_, _, _, _, _, _)
newBondsLoop(a, bonds, i, add, mod, h) ==
    IF i > Len(bonds) THEN [add |-> add, mod |-> mod]
    ELSE LET r == oldBondsLoop(a, bonds[i], 1, add, mod, FALSE, h)
         IN newBondsLoop(a, bonds, i + 1, r.add,
                         IF r.bondExist THEN r.mod
                         ELSE unbondOfNewBond(a, bonds[i], r.mod),
                         h)

\* GetUnbondingInfo, lines 327-350: the loop over the old bonds, for those
\* that the new list drops.
RECURSIVE droppedBondsLoop(_, _, _, _, _, _)
droppedBondsLoop(a, bonds, j, add, mod, h) ==
    IF j > Len(a.bonds) THEN [ubToAdd |-> add, ubToMod |-> mod]
    ELSE LET ob == a.bonds[j]
             k == FirstAt(a.unbonds, ob.Address)
         IN IF FirstAt(bonds, ob.Address) # 0
            THEN droppedBondsLoop(a, bonds, j + 1, add, mod, h)
            ELSE IF k # 0
            THEN droppedBondsLoop(a, bonds, j + 1, add,
                    mod \o <<Unbond(ob.Address, 0, a.unbonds[k].Expire),
                             Unbond(ob.Address, ob.Value + a.unbonds[k].Value, h)>>,
                    h)
            ELSE droppedBondsLoop(a, bonds, j + 1,
                    Append(add, Unbond(ob.Address, ob.Value, h)), mod, h)

\* GetUnbondingInfo(bonds, unbondingHeight): (ubToAdd, ubToMod); the account
\* is read only.
GetUnbondingInfo(a, bonds, h) ==
    LET r == newBondsLoop(a, bonds, 1, <<>>, <<>>, h)
    IN droppedBondsLoop(a, bonds, 1, r.add, r.mod, h)

\* The timer job UpdateUnbonds reports for an unbond it has just rewritten.
jobOf(ub) ==
    TimerJobInfo(IF ub.Value = 0 THEN JobTypeRemove ELSE JobTypeAdd, ub.Expire)

\* UpdateUnbonds, lines 372-386: one modification applied to the unbonds from
\* the k-th on.
RECURSIVE modEntries(_, _, _, _, _)
modEntries(us, mod, k, tl, jobSet) ==
    IF k > Len(us) THEN [unbonds |-> us, tl |-> tl, jobSet |-> jobSet]
    ELSE IF us[k].Address = mod.Address
         THEN LET ub == [us[k] EXCEPT !.Value = mod.Value, !.Expire = mod.Expire]
                  written == [us EXCEPT ![k] = ub]
              IN IF mod.Expire \in jobSet
                 THEN modEntries(written, mod, k + 1, tl, jobSet)
                 ELSE modEntries(written, mod, k + 1, Append(tl, jobOf(ub)),
                                 jobSet \cup {mod.Expire})
         ELSE modEntries(us, mod, k + 1, tl, jobSet)

\* UpdateUnbonds, lines 371-387: the loop over ubToMod.
RECURSIVE modLoop(_, _, _, _, _)
modLoop(us, ubToMod, i, tl, jobSet) ==
    IF i > Len(ubToMod) THEN [unbonds |-> us, tl |-> tl]
    ELSE LET r == modEntries(us, ubToMod[i], 1, tl, jobSet)
         IN modLoop(r.unbonds, ubToMod, i + 1, r.tl, r.jobSet)

\* UpdateUnbonds(ubToAdd, ubToMod)
UpdateUnbonds(a, ubToAdd, ubToMod) ==
    IF checkWritable(a) THEN Panics(a)
    ELSE LET appended == a.unbonds \o ubToAdd
             tl0 == IF Len(ubToAdd) > 0
                    THEN <<TimerJobInfo(JobTypeAdd, ubToAdd[1].Expire)>>
                    ELSE <<>>
             jobSet0 == IF Len(ubToAdd) > 0 THEN {ubToAdd[1].Expire} ELSE {}
             r == modLoop(appended, ubToMod, 1, tl0, jobSet0)
         IN Returns([a EXCEPT !.unbonds = r.unbonds,
                              !.unbonding = GetUnbondAmount(r.unbonds)],
                    ErrNil, 0, 0, r.tl)

RemoveUnbondingLastOnly(a, height) ==
    IF checkWritable(a) THEN Panics(a)
    ELSE LET tmp == SelectSeq(a.unbonds, LAMBDA u : u.Expire # height)
             gone == SelectSeq(a.unbonds, LAMBDA u : u.Expire = height)
         IN IF Len(tmp) = Len(a.unbonds)
            THEN IF a.address = None THEN Panics(a)
                 ELSE Returns(a, ErrNoUnbondingTimer, 0, 0, <<>>)
            ELSE Returns([a EXCEPT !.unbonds = tmp,
                                   !.unbonding = @ - gone[Len(gone)].Value],
                         ErrNil, 0, 0, <<>>)

\* RemoveUnbonding(height): the error message calls a.address.String(), which
\* panics when the address is nil.
RemoveUnbonding(a, height) ==
    IF checkWritable(a) THEN Panics(a)
    ELSE LET tmp == SelectSeq(a.unbonds, LAMBDA u : u.Expire # height)
             removed == SumOfValues(SelectSeq(a.unbonds, LAMBDA u : u.Expire = height))
         IN IF Len(tmp) = Len(a.unbonds)
            THEN IF a.address = None THEN Panics(a)
                 ELSE Returns(a, ErrNoUnbondingTimer, 0, 0, <<>>)
            ELSE Returns([a EXCEPT !.unbonds = tmp, !.unbonding = @ - removed],
                         ErrNil, 0, 0, <<>>)

\* RemoveUnstaking, lines 417-423: ra after the loop is the amount of the
\* last unstake that expires at the height, 0 when there is none.
RECURSIVE lastAmountAt(_, _, _)
lastAmountAt(us, height, ra) ==
    IF us = <<>> THEN ra
    ELSE lastAmountAt(Tail(us), height,
                      IF us[1].ExpireHeight = height THEN us[1].Amount ELSE ra)

\* RemoveUnstaking(height): a.unstakes = tmp is assigned whatever err is; the
\* error messages call a.address.String(), which panics, before the
\* assignment, when the address is nil.
RemoveUnstaking(a, height) ==
    IF checkWritable(a) THEN Panics(a)
    ELSE LET tmp == SelectSeq(a.unstakes, LAMBDA u : u.ExpireHeight # height)
             ra == lastAmountAt(a.unstakes, height, 0)
             tl == Len(tmp)
             ul == Len(a.unstakes)
             err == IF tl = ul THEN ErrNoUnstakingTimer
                    ELSE IF tl # ul - 1 THEN ErrTooManyUnstakingTimer
                    ELSE ErrNil
         IN IF err # ErrNil /\ a.address = None THEN Panics(a)
            ELSE Returns([a EXCEPT !.unstakes = tmp], err, ra, 0, <<>>)

\* Bonds.Slash and Unbonds.Slash: the first entry for the address loses
\* ratio percent of its value, and is removed when ratio is 100; the result
\* is the list, the amount taken and the expire height of the entry.
Slash(l, addr, ratio) ==
    LET k == FirstAt(l, addr)
    IN IF k = 0 THEN [l |-> l, amount |-> 0, expire |-> 0 - 1]
       ELSE LET expire == IF "Expire" \in DOMAIN l[k] THEN l[k].Expire ELSE 0
            IN IF ratio = 100
               THEN [l |-> WithoutAt(l, k), amount |-> l[k].Value, expire |-> expire]
               ELSE LET amount == (l[k].Value * ratio) \div 100
                    IN [l |-> [l EXCEPT ![k].Value = @ - amount],
                        amount |-> amount, expire |-> expire]

\* SlashBond(addr, ratio): no checkWritable is called.
SlashBond(a, addr, ratio) ==
    LET r == Slash(a.bonds, addr, ratio)
    IN Returns([a EXCEPT !.bonds = r.l, !.bonding = @ - r.amount],
               ErrNil, r.amount, 0, <<>>)

\* SlashUnbond(addr, ratio): no checkWritable is called.
SlashUnbond(a, addr, ratio) ==
    LET r == Slash(a.unbonds, addr, ratio)
    IN Returns([a EXCEPT !.unbonds = r.l, !.unbonding = @ - r.amount],
               ErrNil, r.amount, r.expire, <<>>)

\* GetSnapshot(): the account itself when it is read-only, else a frozen
\* clone. The result says whether the object returned is the receiver.
GetSnapshot(a) ==
    IF IsReadonly(a) THEN [same |-> TRUE, a |-> a]
    ELSE [same |-> FALSE, a |-> freeze(Clone(a))]

----------------------------------------------------------------------------
(* The values the parts of the model rest in while another part runs *)

NoCall == [op |-> "none", hashVal |-> None, keyVal |-> None, addrVal |-> None,
           errVal |-> ErrNil, attempt |-> "none"]

\* calls: calls made; keyCalls: those of publicKey, address and verify;
\* nHash: SHA3 computations; nRecover: recovery attempts; nRecoverOK: those
\* that succeeded; lateRecover: attempts made while a key was cached;
\* mutated: a field was assigned since construction; firstBytes: the
\* canonical bytes when hash() was first invoked.
NoCalls == [calls |-> 0, keyCalls |-> 0, nHash |-> 0, nRecover |-> 0,
            nRecoverOK |-> 0, lateRecover |-> 0, mutated |-> FALSE,
            firstBytes |-> None]

NotVerified == [called |-> FALSE, err |-> ErrNil, looked |-> <<>>]

NoBlock == [Height |-> 1, ID |-> <<>>, NextValidators |-> <<>>]

NotBuilt == [called |-> FALSE, panic |-> FALSE, vl |-> None]

NoWire == [bs |-> <<>>, corrupted |-> FALSE, extended |-> FALSE]

NotReceived == [called |-> FALSE, vl |-> None]

\* NewManager: the current parent is the initial transition, the committed
\* state is the persisted one, the finalize lock is free.
NewManager == [current |-> 0, committed |-> <<>>, mu |-> None]

\* pc: where the thread is in Finalize; t: the transition; err: what the
\* check decided; pre: the transition was Executed when it was checked.
NoFinalizeCall == [pc |-> "idle", t |-> 0, err |-> ErrNil, pre |-> TRUE]

NoFinalize == [c \in Threads |-> NoFinalizeCall]

\* op: the call; t: the transition it was made on; err: what it returned;
\* pre: the state the call requires of t held when it was made; before: the
\* number of transitions (the current parent, for Finalize) before the call.
NoServiceCall == [op |-> "none", t |-> 0, err |-> ErrNil, pre |-> TRUE, before |-> 0]
NoSnapshot == [taken |-> FALSE, obj |-> newAccount(TheOwner), at |-> newAccount(TheOwner)]
NoAccountCall ==
    [op |-> "none", onSnap |-> FALSE, in |-> <<>>, err |-> ErrNil, panic |-> FALSE,
     amount |-> 0, expire |-> 0, tl |-> <<>>, before |-> newAccount(TheOwner)]
NoPlan ==
    [step |-> "none", bonds |-> <<>>, h |-> 0, ubToAdd |-> <<>>, ubToMod |-> <<>>,
     old |-> newAccount(TheOwner)]

----------------------------------------------------------------------------
(* Calls on one signed message *)

\* The block the model's votes are about.
TheBlockID == <<171>>
ThePartSetID == Some([Count |-> 1, Hash |-> <<7>>])

\* The signed content of a precommit for block `id` at (height, round).
PrecommitFor(height, round, id, psid) ==
    [newVoteMessage EXCEPT !.Height = height, !.Round = round,
                           !.Type = voteTypePrecommit, !.BlockID = id,
                           !.BlockPartSetID = psid]

\* The digest a precommit signature for that block is made over.
PrecommitDigest(height, round, id, psid) ==
    SHA3Sum256(bytes(PrecommitFor(height, round, id, psid)))

\* Signatures a message of the model may carry: malformed, or made by
\* validator 1 or 2 over the precommit of some round.
SignedSigs ==
    {BadSignature} \cup
    {Sign(id, PrecommitDigest(VotedHeight, r, TheBlockID, ThePartSetID)) :
        id \in 1..2, r \in 0..MaxRound}

SignedInit ==
    /\ \E r \in 0..MaxRound, sig \in SignedSigs :
          smsg = [PrecommitFor(VotedHeight, r, TheBlockID, ThePartSetID)
                     EXCEPT !.Signature = sig]
    /\ sret = NoCall
    /\ scnt = NoCalls
    /\ block = NoBlock /\ vl = emptyVoteList /\ vret = NotVerified
    /\ msgs = <<>> /\ nret = NotBuilt
    /\ cvl = None /\ wire = NoWire /\ cret = NotReceived
    /\ trs = <<>> /\ sm = NewManager /\ fin = NoFinalize /\ svcRet = NoServiceCall
    /\ acct = newAccount(TheOwner) /\ snap = NoSnapshot /\ aret = NoAccountCall /\ plan = NoPlan

\* The counters after a call that did the work recorded in r on message s;
\* kc is 1 for a call of publicKey, address or verify.
Counted(s, r, kc) ==
    [scnt EXCEPT !.calls = @ + 1,
                 !.keyCalls = @ + kc,
                 !.lateRecover = IF s._publicKey # None THEN @ + r.nr ELSE @,
                 !.nHash = @ + r.nh,
                 !.nRecover = @ + r.nr,
                 !.nRecoverOK = @ + r.nok,
                 !.firstBytes = IF @ = None /\ r.hc > 0 THEN Some(bytes(s)) ELSE @]

Attempt(r) == IF r.nr = 0 THEN "none" ELSE IF r.nok > 0 THEN "ok" ELSE "fail"

CallHash ==
    /\ scnt.calls < MaxCalls
    /\ LET r == hash(smsg)
       IN /\ smsg' = r.s
          /\ sret' = [NoCall EXCEPT !.op = "hash", !.hashVal = Some(r.val)]
          /\ scnt' = Counted(smsg, [nh |-> r.nh, hc |-> r.hc, nr |-> 0, nok |-> 0], 0)
    /\ UNCHANGED <<verifyVars, newVars, codecVars, svcVars, accVars>>

CallPublicKey ==
    /\ scnt.calls < MaxCalls
    /\ LET r == publicKey(smsg)
       IN /\ smsg' = r.s
          /\ sret' = [NoCall EXCEPT !.op = "publicKey", !.keyVal = r.val,
                                    !.attempt = Attempt(r)]
          /\ scnt' = Counted(smsg, r, 1)
    /\ UNCHANGED <<verifyVars, newVars, codecVars, svcVars, accVars>>

CallAddress ==
    /\ scnt.calls < MaxCalls
    /\ LET r == address(smsg)
       IN /\ smsg' = r.s
          /\ sret' = [NoCall EXCEPT !.op = "address", !.addrVal = r.val,
                                    !.attempt = Attempt(r)]
          /\ scnt' = Counted(smsg, r, 1)
    /\ UNCHANGED <<verifyVars, newVars, codecVars, svcVars, accVars>>

CallVerify ==
    /\ scnt.calls < MaxCalls
    /\ LET r == verify(smsg)
       IN /\ smsg' = r.s
          /\ sret' = [NoCall EXCEPT !.op = "verify", !.errVal = r.val,
                                    !.attempt = Attempt(r)]
          /\ scnt' = Counted(smsg, r, 1)
    /\ UNCHANGED <<verifyVars, newVars, codecVars, svcVars, accVars>>

\* msg.Signature = sig: the field is assigned after construction, as
\* voteList.Verify does for every signature of the list.
SetSignature ==
    /\ \E sig \in SignedSigs :
          /\ sig # smsg.Signature
          /\ smsg' = [smsg EXCEPT !.Signature = sig]
    /\ sret' = NoCall
    /\ scnt' = [scnt EXCEPT !.mutated = TRUE]
    /\ UNCHANGED <<verifyVars, newVars, codecVars, svcVars, accVars>>

\* msg.Round = r: a field of the signed content is assigned after construction.
SetRound ==
    /\ \E r \in 0..MaxRound :
          /\ r # smsg.Round
          /\ smsg' = [smsg EXCEPT !.Round = r]
    /\ sret' = NoCall
    /\ scnt' = [scnt EXCEPT !.mutated = TRUE]
    /\ UNCHANGED <<verifyVars, newVars, codecVars, svcVars, accVars>>

SignedNext ==
    \/ CallHash
    \/ CallPublicKey
    \/ CallAddress
    \/ CallVerify
    \/ SetSignature
    \/ SetRound

SpecSigned == SignedInit /\ [][SignedNext]_vars

(* Claims about the signed message, checked under SpecSigned *)

\* Whether recovering a key from the signature the message now carries fails.
RecoveryFails(s) == RecoverPublicKey(s.Signature, SHA3Sum256(bytes(s))).err

\* C5: publicKey() returns none exactly when nothing is cached and the
\* recovery from the signature fails; address() returns none exactly when
\* publicKey() returns none; verify() returns the bad-signature error exactly
\* when publicKey() returns none, and nil otherwise.
C5_NoneOnFailedRecovery ==
    /\ sret.op = "publicKey" =>
          ((sret.keyVal = None) <=> (smsg._publicKey = None /\ RecoveryFails(smsg)))
    /\ sret.op = "address" =>
          ((sret.addrVal = None) <=> (smsg._publicKey = None /\ RecoveryFails(smsg)))
    /\ sret.op = "verify" =>
          /\ (sret.errVal = ErrBadSignature) <=>
                (smsg._publicKey = None /\ RecoveryFails(smsg))
          /\ sret.errVal \in {ErrBadSignature, ErrNil}

\* verify() has returned the bad-signature error after a failed recovery.
C5_Witness ==
    /\ sret.op = "verify"
    /\ sret.attempt = "fail"
    /\ sret.errVal = ErrBadSignature

\* C6 as claimed: on a message whose fields are not assigned after
\* construction, whatever calls are made, the digest is computed at most once
\* and the recovery is performed at most once, a failed recovery included.
C6_ComputedAtMostOnce ==
    ~scnt.mutated => (scnt.nHash <= 1 /\ scnt.nRecover <= 1)

\* C6 as amended: the digest is computed at most once and a key is recovered
\* successfully at most once, after which no recovery is attempted again; a
\* failed recovery caches nothing, so on a message left as constructed with a
\* malformed signature every publicKey(), address() or verify() call attempts
\* the recovery again.
C6_CachedOnSuccessOnly ==
    /\ scnt.nHash <= 1
    /\ scnt.nRecoverOK <= 1
    /\ scnt.lateRecover = 0
    /\ (~scnt.mutated /\ RecoveryFails(smsg)) => scnt.nRecover = scnt.keyCalls

\* The recovery has failed twice on an untouched message, the digest having
\* been computed once.
C6_Witness ==
    /\ ~scnt.mutated
    /\ scnt.nRecover >= 2
    /\ scnt.nRecoverOK = 0
    /\ scnt.nHash = 1

\* C7: every hash() call returns the SHA3-256 digest of the canonical bytes
\* the message had when hash() was first invoked, so all calls return the
\* same bytes.
C7_HashIdempotent ==
    sret.op = "hash" =>
        /\ scnt.firstBytes # None
        /\ sret.hashVal = Some(SHA3Sum256(scnt.firstBytes[1]))

\* hash() has returned again after the signed content changed.
C7_Witness ==
    /\ sret.op = "hash"
    /\ scnt.nHash = 1
    /\ scnt.calls >= 2
    /\ scnt.firstBytes # None
    /\ bytes(smsg) # scnt.firstBytes[1]

----------------------------------------------------------------------------
(* Verifying a vote list that is assembled signature by signature *)

\* The first n validators of the model, in the order of the set.
ValidatorSet(n) == [i \in 1..n |-> AddressOf(i)]

\* Signatures that may arrive for the list v of block b: a precommit of each
\* validator and of the outsider, validator 1's prevote (a well-formed
\* signature over another digest), and a malformed signature.
ArrivingSigs(v, b) ==
    {Sign(id, PrecommitDigest(b.Height, v.Round, b.ID, v.BlockPartSetID)) :
        id \in Signers}
    \cup {Sign(1, SHA3Sum256(bytes(
             [PrecommitFor(b.Height, v.Round, b.ID, v.BlockPartSetID)
                 EXCEPT !.Type = voteTypePrevote])))}
    \cup {BadSignature}

VerifyInit ==
    /\ \E h \in {1, VotedHeight}, n \in 0..MaxValidators :
          block = [Height |-> h, ID |-> TheBlockID, NextValidators |-> ValidatorSet(n)]
    /\ \E r \in {0, MaxRound} :
          vl = [Round |-> r, BlockPartSetID |-> ThePartSetID, Signatures |-> <<>>]
    /\ vret = NotVerified
    /\ smsg = newVoteMessage /\ sret = NoCall /\ scnt = NoCalls
    /\ msgs = <<>> /\ nret = NotBuilt
    /\ cvl = None /\ wire = NoWire /\ cret = NotReceived
    /\ trs = <<>> /\ sm = NewManager /\ fin = NoFinalize /\ svcRet = NoServiceCall
    /\ acct = newAccount(TheOwner) /\ snap = NoSnapshot /\ aret = NoAccountCall /\ plan = NoPlan

AppendSignature ==
    /\ Len(vl.Signatures) < MaxSigs
    /\ \E sig \in ArrivingSigs(vl, block) :
          vl' = [vl EXCEPT !.Signatures = Append(@, sig)]
    /\ vret' = NotVerified
    /\ UNCHANGED block
    /\ UNCHANGED <<signedVars, newVars, codecVars, svcVars, accVars>>

DoVerify ==
    /\ ~vret.called
    /\ LET r == Verify(vl, block)
       IN vret' = [called |-> TRUE, err |-> r.err, looked |-> r.looked]
    /\ UNCHANGED <<block, vl>>
    /\ UNCHANGED <<signedVars, newVars, codecVars, svcVars, accVars>>

VerifyNext ==
    \/ AppendSignature
    \/ DoVerify

SpecVerify == VerifyInit /\ [][VerifyNext]_vars

(* Claims about voteList.Verify, checked under SpecVerify *)

NumValidators == Len(block.NextValidators)
NumSigs == Len(vl.Signatures)

\* The i-th signature is a well-formed precommit signature for the block.
ValidPrecommit(i) ==
    /\ vl.Signatures[i].wellFormed
    /\ vl.Signatures[i].over =
          PrecommitDigest(block.Height, vl.Round, block.ID, vl.BlockPartSetID)

\* The address the i-th signature recovers to under the precommit digest
\* (None when the recovery fails).
RecoveredAddress(i) ==
    LET r == RecoverPublicKey(vl.Signatures[i],
                 PrecommitDigest(block.Height, vl.Round, block.ID, vl.BlockPartSetID))
    IN IF r.err THEN None ELSE Some(NewAccountAddressFromPublicKey(r.key))

IsMember(a) == \E j \in 1..NumValidators : block.NextValidators[j] = a

\* Every signature is a valid precommit of a member of the validator set.
AllFromMembers ==
    \A i \in 1..NumSigs :
        /\ ValidPrecommit(i)
        /\ IsMember(AddressOf(vl.Signatures[i].signer))

DistinctSigners ==
    \A i, j \in 1..NumSigs :
        i # j => vl.Signatures[i].signer # vl.Signatures[j].signer

\* C1: above height 1, a list of k valid precommit signatures of k distinct
\* members of a validator set of N passes Verify iff k > floor(N*2/3), and
\* fails with the insufficient-votes error otherwise.
C1_QuorumIff ==
    (vret.called /\ block.Height > 1 /\ AllFromMembers /\ DistinctSigners) =>
        /\ (vret.err = ErrNil) <=> (NumSigs > (NumValidators * 2) \div 3)
        /\ vret.err \in {ErrNil, ErrInsufficientVotes}

\* 3 valid signatures of distinct validators out of 4 have been accepted.
C1_Witness ==
    /\ vret.called /\ block.Height > 1 /\ AllFromMembers /\ DistinctSigners
    /\ NumValidators = 4 /\ NumSigs = 3
    /\ vret.err = ErrNil

\* C2: above height 1, a list holding at any position a signature that
\* recovers to an address outside the validator set fails Verify.
C2_NonMemberRejected ==
    (/\ vret.called /\ block.Height > 1
     /\ \E i \in 1..NumSigs :
           RecoveredAddress(i) # None /\ ~IsMember(RecoveredAddress(i)[1]))
    => vret.err # ErrNil

\* C3: above height 1, a list of valid precommits of members passes Verify
\* only if its signers are pairwise distinct (and so more than floor(2N/3)
\* distinct validators signed).
C3_DistinctSignersOnly ==
    (vret.called /\ block.Height > 1 /\ AllFromMembers /\ vret.err = ErrNil) =>
        /\ DistinctSigners
        /\ Cardinality({vl.Signatures[i].signer : i \in 1..NumSigs})
              > (NumValidators * 2) \div 3

\* C4: at height 1 Verify succeeds iff the list is empty, fails with the
\* unexpected-voters error otherwise, and looks nothing up in the validator
\* set.
C4_Height1EmptyOnly ==
    (vret.called /\ block.Height = 1) =>
        /\ (vret.err = ErrNil) <=> (NumSigs = 0)
        /\ vret.err \in {ErrNil, ErrUnexpectedVoters}
        /\ vret.looked = <<>>

\* A non-empty list has been rejected at height 1 although every signature
\* of it is a valid precommit of a distinct member.
C4_Witness ==
    /\ vret.called /\ block.Height = 1
    /\ NumSigs > 0 /\ AllFromMembers /\ DistinctSigners
    /\ vret.err = ErrUnexpectedVoters

\* C16: above height 1, the address Verify looks up in the validator set for
\* the i-th signature is the address recovered from that i-th signature
\* substituted into the template, never an address kept from an earlier
\* signature.
C16_LooksUpOwnSigner ==
    (vret.called /\ block.Height > 1) =>
        \A i \in 1..Len(vret.looked) : vret.looked[i] = RecoveredAddress(i)

\* The validators whose signatures the list carries.
SignerSet == {vl.Signatures[i].signer : i \in 1..NumSigs}

\* The precommit signatures of the validators in S, in the order of the set.
RECURSIVE PrecommitsOf(_)
PrecommitsOf(S) ==
    IF S = {} THEN <<>>
    ELSE LET m == CHOOSE x \in S : \A y \in S : x <= y
         IN <<Sign(m, PrecommitDigest(block.Height, vl.Round, block.ID,
                                      vl.BlockPartSetID))>>
            \o PrecommitsOf(S \ {m})

\* Verify accepts the precommits of the set S of validators for the block.
Accepted(S) ==
    Verify([vl EXCEPT !.Signatures = PrecommitsOf(S)], block).err = ErrNil

\* C17: for a validator set of N >= 1, k valid precommits of distinct
\* validators are accepted exactly when k >= floor(2N/3) + 1, and any two
\* accepted sets of distinct validators share more than N/3 validators.
C17_QuorumIntersection ==
    (/\ vret.called /\ block.Height > 1 /\ NumValidators >= 1
     /\ AllFromMembers /\ DistinctSigners)
    => /\ (vret.err = ErrNil) <=> (NumSigs >= (2 * NumValidators) \div 3 + 1)
       /\ vret.err = ErrNil =>
             \A B \in SUBSET (1..NumValidators) :
                 Accepted(B) => 3 * Cardinality(SignerSet \cap B) > NumValidators

\* Three of four validators have been accepted, and another accepted set
\* shares exactly two validators with them.
C17_Witness ==
    /\ vret.called /\ block.Height > 1 /\ AllFromMembers /\ DistinctSigners
    /\ NumValidators = 4 /\ NumSigs = 3
    /\ vret.err = ErrNil
    /\ \E B \in SUBSET (1..NumValidators) :
          Accepted(B) /\ Cardinality(SignerSet \cap B) = 2

----------------------------------------------------------------------------
(* Building a vote list from a batch of vote messages *)

OtherBlockID == <<172>>

\* The vote messages that may be in a batch: the fields newVoteList reads.
BatchMsgs ==
    [Round : {0, MaxRound},
     BlockID : {<<>>, TheBlockID, OtherBlockID},
     BlockPartSetID : {None, ThePartSetID},
     Signature : {Sign(id, PrecommitDigest(VotedHeight, 0, TheBlockID, ThePartSetID)) :
                     id \in 1..2}]

NewInit ==
    /\ msgs = <<>>
    /\ nret = NotBuilt
    /\ smsg = newVoteMessage /\ sret = NoCall /\ scnt = NoCalls
    /\ block = NoBlock /\ vl = emptyVoteList /\ vret = NotVerified
    /\ cvl = None /\ wire = NoWire /\ cret = NotReceived
    /\ trs = <<>> /\ sm = NewManager /\ fin = NoFinalize /\ svcRet = NoServiceCall
    /\ acct = newAccount(TheOwner) /\ snap = NoSnapshot /\ aret = NoAccountCall /\ plan = NoPlan

AddVoteMessage ==
    /\ Len(msgs) < MaxMsgs
    /\ \E m \in BatchMsgs : msgs' = Append(msgs, m)
    /\ nret' = NotBuilt
    /\ UNCHANGED <<signedVars, verifyVars, codecVars, svcVars, accVars>>

DoNewVoteList ==
    /\ ~nret.called
    /\ LET r == newVoteList(msgs)
       IN nret' = [called |-> TRUE, panic |-> r.panic, vl |-> r.vl]
    /\ UNCHANGED msgs
    /\ UNCHANGED <<signedVars, verifyVars, codecVars, svcVars, accVars>>

NewNext ==
    \/ AddVoteMessage
    \/ DoNewVoteList

SpecNewVoteList == NewInit /\ [][NewNext]_vars

(* Claims about newVoteList, checked under SpecNewVoteList *)

\* C9: newVoteList panics, returning no list, iff some message of the batch
\* has a block ID other than that of the first message; with equal block IDs
\* (and for the empty batch) it returns a list.
C9_PanicIffMixedBlockIDs ==
    nret.called =>
        /\ nret.panic <=> (\E i \in 1..Len(msgs) : msgs[i].BlockID # msgs[1].BlockID)
        /\ nret.panic => nret.vl = None
        /\ ~nret.panic => nret.vl # None

\* newVoteList has panicked on a batch whose last message alone names
\* another block.
C9_Witness ==
    /\ nret.called /\ nret.panic
    /\ Len(msgs) >= 3
    /\ \A i \in 1..(Len(msgs) - 1) : msgs[i].BlockID = msgs[1].BlockID
    /\ msgs[Len(msgs)].BlockID # msgs[1].BlockID

\* C21: for a batch whose messages all name the block ID of the first one,
\* newVoteList returns a list with one signature per message, the i-th being
\* that of the i-th message, and with the Round and BlockPartSetID of the
\* first message; for the empty batch the list has no signatures.
C21_ArrivalOrderKept ==
    (nret.called /\ \A i \in 1..Len(msgs) : msgs[i].BlockID = msgs[1].BlockID)
    => /\ nret.vl # None
       /\ Len(nret.vl[1].Signatures) = Len(msgs)
       /\ \A i \in 1..Len(msgs) : nret.vl[1].Signatures[i] = msgs[i].Signature
       /\ Len(msgs) > 0 =>
             /\ nret.vl[1].Round = msgs[1].Round
             /\ nret.vl[1].BlockPartSetID = msgs[1].BlockPartSetID

\* A list has been built from three messages of one block whose signatures
\* and rounds are not all the same.
C21_Witness ==
    /\ nret.called /\ ~nret.panic /\ nret.vl # None
    /\ Len(msgs) = 3
    /\ msgs[1].Signature # msgs[2].Signature
    /\ msgs[2].Signature # msgs[3].Signature
    /\ msgs[1].Round # msgs[3].Round
    /\ msgs[1].BlockPartSetID # msgs[2].BlockPartSetID

----------------------------------------------------------------------------
(* Serializing a vote list, the bytes travelling, and reading them back *)

\* All sequences of at most n elements of S.
SeqsUpTo(S, n) == UNION {[1..k -> S] : k \in 0..n}

\* The serialized signature made of the byte b.
WireSig(b) == Some([i \in 1..SigLen |-> b])

\* The vote lists that get serialized; a None signature is a nil one.
CodecVoteLists ==
    [Round : {-1, 0, MaxRound},
     BlockPartSetID : {None, ThePartSetID},
     Signatures : SeqsUpTo({None, WireSig(11), WireSig(12)}, MaxWireSigs)]

\* The bytes a damaged transmission puts in place of a byte or adds.
NoiseBytes == {0, mpNil, mpBin8, mpFixArray + 1}

CodecInit ==
    /\ cvl = None
    /\ wire = NoWire
    /\ cret = NotReceived
    /\ smsg = newVoteMessage /\ sret = NoCall /\ scnt = NoCalls
    /\ block = NoBlock /\ vl = emptyVoteList /\ vret = NotVerified
    /\ msgs = <<>> /\ nret = NotBuilt
    /\ trs = <<>> /\ sm = NewManager /\ fin = NoFinalize /\ svcRet = NoServiceCall
    /\ acct = newAccount(TheOwner) /\ snap = NoSnapshot /\ aret = NoAccountCall /\ plan = NoPlan

\* vl.Bytes() is sent.
Serialize ==
    /\ cvl = None
    /\ \E v \in CodecVoteLists :
          /\ cvl' = Some(v)
          /\ wire' = [wire EXCEPT !.bs = Bytes(v)]
    /\ UNCHANGED cret
    /\ UNCHANGED <<signedVars, verifyVars, newVars, svcVars, accVars>>

\* The input is cut short.
Truncate ==
    /\ cvl # None /\ ~cret.called
    /\ \E n \in 0..(Len(wire.bs) - 1) :
          wire' = [wire EXCEPT !.bs = SubSeq(wire.bs, 1, n)]
    /\ UNCHANGED <<cvl, cret>>
    /\ UNCHANGED <<signedVars, verifyVars, newVars, svcVars, accVars>>

\* One byte of the input is replaced.
Corrupt ==
    /\ cvl # None /\ ~cret.called /\ ~wire.corrupted
    /\ \E i \in 1..Len(wire.bs), b \in NoiseBytes :
          /\ b # wire.bs[i]
          /\ wire' = [wire EXCEPT !.bs = [wire.bs EXCEPT ![i] = b],
                                  !.corrupted = TRUE]
    /\ UNCHANGED <<cvl, cret>>
    /\ UNCHANGED <<signedVars, verifyVars, newVars, svcVars, accVars>>

\* A byte follows the input.
Extend ==
    /\ cvl # None /\ ~cret.called /\ ~wire.extended
    /\ \E b \in NoiseBytes :
          wire' = [wire EXCEPT !.bs = Append(wire.bs, b), !.extended = TRUE]
    /\ UNCHANGED <<cvl, cret>>
    /\ UNCHANGED <<signedVars, verifyVars, newVars, svcVars, accVars>>

\* NewVoteListFromBytes(wire)
Receive ==
    /\ cvl # None /\ ~cret.called
    /\ cret' = [called |-> TRUE, vl |-> NewVoteListFromBytes(wire.bs)]
    /\ UNCHANGED <<cvl, wire>>
    /\ UNCHANGED <<signedVars, verifyVars, newVars, svcVars, accVars>>

CodecNext ==
    \/ Serialize
    \/ Truncate
    \/ Corrupt
    \/ Extend
    \/ Receive

SpecCodec == CodecInit /\ [][CodecNext]_vars

(* Claims about Bytes and NewVoteListFromBytes, checked under SpecCodec *)

IsPrefix(a, b) == Len(a) <= Len(b) /\ SubSeq(b, 1, Len(a)) = a

\* C8: when vl.Bytes() succeeds, NewVoteListFromBytes of those bytes is a
\* list with the Round, the BlockPartSetID and the sequence of Signatures of
\* vl.
C8_RoundTrip ==
    (/\ cret.called /\ cvl # None
     /\ ~MarshalToBytes(cvl[1]).err
     /\ wire.bs = Bytes(cvl[1]))
    => /\ cret.vl # None
       /\ cret.vl[1].Round = cvl[1].Round
       /\ cret.vl[1].BlockPartSetID = cvl[1].BlockPartSetID
       /\ Len(cret.vl[1].Signatures) = Len(cvl[1].Signatures)
       /\ \A i \in 1..Len(cvl[1].Signatures) :
             cret.vl[1].Signatures[i] = cvl[1].Signatures[i]

\* A list with a negative round, a part-set ID and two different signatures
\* has been read back from its own bytes.
C8_Witness ==
    /\ cret.called /\ cvl # None /\ cret.vl # None
    /\ wire.bs = Bytes(cvl[1])
    /\ cvl[1].Round < 0 /\ cvl[1].BlockPartSetID # None
    /\ Len(cvl[1].Signatures) = 2
    /\ cvl[1].Signatures[1] # cvl[1].Signatures[2]

\* C10: NewVoteListFromBytes returns a list only when the input decodes: the
\* list returned serializes to a prefix of the input (the bytes left over are
\* dropped), so an input that begins with no list's serialization, the empty
\* input included, yields nil.
C10_NilOnMalformed ==
    cret.called =>
        (cret.vl # None =>
            /\ ~MarshalToBytes(cret.vl[1]).err
            /\ IsPrefix(Bytes(cret.vl[1]), wire.bs))

\* NewVoteListFromBytes has returned nil for a non-empty damaged input.
C10_Witness ==
    /\ cret.called /\ cret.vl = None
    /\ wire.corrupted
    /\ wire.bs # <<>>
    /\ cvl # None /\ wire.bs # Bytes(cvl[1])

----------------------------------------------------------------------------
(* The service manager driven by the consensus engine: transitions are     *)
(* created, executed by workers and finalized by concurrent threads.       *)

ServiceInit ==
    /\ trs = <<>>
    /\ sm = NewManager
    /\ fin = NoFinalize
    /\ svcRet = NoServiceCall
    /\ acct = newAccount(TheOwner) /\ snap = NoSnapshot /\ aret = NoAccountCall /\ plan = NoPlan
    /\ smsg = newVoteMessage /\ sret = NoCall /\ scnt = NoCalls
    /\ block = NoBlock /\ vl = emptyVoteList /\ vret = NotVerified
    /\ msgs = <<>> /\ nret = NotBuilt
    /\ cvl = None /\ wire = NoWire /\ cret = NotReceived

\* CreateInitialTransition(nil, nil, -1): the bootstrap transition of the
\* persisted state, the same one at every call.
CreateInitialTransition ==
    /\ svcRet' = [op |-> "CreateInitialTransition", t |-> 0, err |-> ErrNil,
                  pre |-> TRUE, before |-> 0]
    /\ UNCHANGED <<trs, sm, fin>>
    /\ UNCHANGED <<signedVars, verifyVars, newVars, codecVars, accVars>>

\* ProposeGenesisTransition(p): the genesis set-up as a transition ready for
\* execution.
ProposeGenesisTransition ==
    /\ Len(trs) < MaxTransitions
    /\ \E p \in 0..Len(trs) :
          LET err == proposeGenesisCheck(p)
          IN /\ trs' = IF err = ErrNil
                       THEN Append(trs, newTransition(1, p, GenesisBatch, "Validated"))
                       ELSE trs
             /\ svcRet' = [op |-> "ProposeGenesisTransition", t |-> p, err |-> err,
                           pre |-> (p = 0), before |-> Len(trs)]
    /\ UNCHANGED <<sm, fin>>
    /\ UNCHANGED <<signedVars, verifyVars, newVars, codecVars, accVars>>

\* ProposeTransition(p): a candidate on parent p with a batch of pending
\* transactions selected locally, ready for execution.
ProposeTransition ==
    /\ Len(trs) < MaxTransitions
    /\ \E p \in 0..Len(trs), txs \in TxBatches :
          LET err == proposeCheck(trs, p)
          IN /\ trs' = IF err = ErrNil
                       THEN Append(trs, newTransition(Tr(trs, p).height + 1, p, txs,
                                                      "Validated"))
                       ELSE trs
             /\ svcRet' = [op |-> "ProposeTransition", t |-> p, err |-> err,
                           pre |-> (Tr(trs, p).state = "Finalized"),
                           before |-> Len(trs)]
    /\ UNCHANGED <<sm, fin>>
    /\ UNCHANGED <<signedVars, verifyVars, newVars, codecVars, accVars>>

\* CreateTransition(p, txList): the validator-side transition on parent p for
\* a transaction list supplied from outside, to be validated by Execute.
CreateTransition ==
    /\ Len(trs) < MaxTransitions
    /\ \E p \in 0..Len(trs), txs \in TxBatches :
          /\ trs' = Append(trs, newTransition(Tr(trs, p).height + 1, p, txs, "Created"))
          /\ svcRet' = [op |-> "CreateTransition", t |-> p, err |-> ErrNil,
                        pre |-> TRUE, before |-> Len(trs)]
    /\ UNCHANGED <<sm, fin>>
    /\ UNCHANGED <<signedVars, verifyVars, newVars, codecVars, accVars>>

\* transition.Execute(cb): starts the execution on a worker and returns; the
\* caller then blocks on <-cb.exeDone.
Execute(t) ==
    /\ t \in 1..Len(trs)
    /\ LET err == executeCheck(trs[t])
       IN /\ trs' = IF err = ErrNil
                    THEN [trs EXCEPT ![t].state = IF @ = "Created"
                                                  THEN "Validating" ELSE @,
                                     ![t].worker = "validating"]
                    ELSE trs
          /\ svcRet' = [op |-> "Execute", t |-> t, err |-> err,
                        pre |-> (err = ErrNil), before |-> 0]
    /\ UNCHANGED <<sm, fin>>
    /\ UNCHANGED <<signedVars, verifyVars, newVars, codecVars, accVars>>

\* The worker finishes the checks of t: OnValidate fires, and the state
\* transformation starts. A transition under validation that fails it moves
\* to Discarded; one proposed locally was validated when its transactions
\* were selected. A transition discarded meanwhile is dropped.
WorkerValidate(t) ==
    /\ t \in 1..Len(trs)
    /\ trs[t].worker = "validating"
    /\ \/ /\ superseded(trs[t])
          /\ trs' = [trs EXCEPT ![t].worker = "dropped"]
       \/ /\ ~superseded(trs[t])
          /\ \E ok \in BOOLEAN :
                /\ ok \/ trs[t].state = "Validating"
                /\ trs' = [trs EXCEPT
                             ![t] = LET fired == [@ EXCEPT !.cb = OnValidate(@),
                                                           !.nValidate = @ + 1]
                                    IN IF ok
                                       THEN [fired EXCEPT !.state = "Executing",
                                                          !.worker = "executing"]
                                       ELSE [discard(fired) EXCEPT !.worker = "failed"]]
    /\ UNCHANGED <<sm, fin, svcRet>>
    /\ UNCHANGED <<signedVars, verifyVars, newVars, codecVars, accVars>>

\* The worker completes the state transformation of t: the transition is
\* Executed and the worker calls OnExecute, in which it blocks until the
\* caller receives from exeDone. The result of a transition discarded
\* meanwhile is dropped.
WorkerComplete(t) ==
    /\ t \in 1..Len(trs)
    /\ trs[t].worker = "executing"
    /\ trs' = IF superseded(trs[t])
              THEN [trs EXCEPT ![t].worker = "dropped"]
              ELSE [trs EXCEPT ![t].state = "Executed",
                               ![t].worker = "sending",
                               ![t].cb = OnExecute(@),
                               ![t].nExecute = @ + 1]
    /\ UNCHANGED <<sm, fin, svcRet>>
    /\ UNCHANGED <<signedVars, verifyVars, newVars, codecVars, accVars>>

\* The caller of Execute(cb) receives: <-cb.exeDone takes the value of the
\* worker blocked in OnExecute, which returns.
ReceiveExeDone(t) ==
    /\ t \in 1..Len(trs)
    /\ chanCanReceive(trs[t].cb.exeDone)
    /\ trs' = [trs EXCEPT ![t].cb.exeDone = chanReceive(@),
                          ![t].worker = IF @ = "sending" THEN "done" ELSE @]
    /\ UNCHANGED <<sm, fin, svcRet>>
    /\ UNCHANGED <<signedVars, verifyVars, newVars, codecVars, accVars>>

\* A thread calls Finalize(t, FinalizeNormalTransaction|FinalizeResult): it
\* takes the finalize lock and checks the transition.
FinalizeEnter(c, t) ==
    /\ t \in 1..Len(trs)
    /\ fin[c].pc = "idle"
    /\ lockFree(sm.mu)
    /\ sm' = [sm EXCEPT !.mu = Some(c)]
    /\ fin' = [fin EXCEPT ![c] = [pc |-> "locked", t |-> t,
                                  err |-> finalizeCheck(trs, sm.current, t),
                                  pre |-> (trs[t].state = "Executed")]]
    /\ UNCHANGED <<trs, svcRet>>
    /\ UNCHANGED <<signedVars, verifyVars, newVars, codecVars, accVars>>

\* The thread commits or fails, releases the lock and returns: on success t
\* becomes the current parent, its result the committed state, and its
\* siblings are discarded; a transition of a height already finalized is
\* discarded.
FinalizeExit(c) ==
    /\ fin[c].pc = "locked"
    /\ LET t == fin[c].t
       IN /\ \/ /\ fin[c].err = ErrNil
                /\ trs' = finalize(trs, t)
                /\ sm' = [current |-> t, committed |-> StateAfter(trs, t), mu |-> None]
             \/ /\ fin[c].err = ErrSuperseded
                /\ trs' = [trs EXCEPT ![t] = discard(@)]
                /\ sm' = [sm EXCEPT !.mu = None]
             \/ /\ fin[c].err \notin {ErrNil, ErrSuperseded}
                /\ trs' = trs
                /\ sm' = [sm EXCEPT !.mu = None]
          /\ svcRet' = [op |-> "Finalize", t |-> t, err |-> fin[c].err,
                        pre |-> fin[c].pre, before |-> sm.current]
    /\ fin' = [fin EXCEPT ![c] = NoFinalizeCall]
    /\ UNCHANGED <<signedVars, verifyVars, newVars, codecVars, accVars>>

ServiceNext ==
    \/ CreateInitialTransition
    \/ ProposeGenesisTransition
    \/ ProposeTransition
    \/ CreateTransition
    \/ \E t \in 1..MaxTransitions : Execute(t)
    \/ \E t \in 1..MaxTransitions : WorkerValidate(t)
    \/ \E t \in 1..MaxTransitions : WorkerComplete(t)
    \/ \E t \in 1..MaxTransitions : ReceiveExeDone(t)
    \/ \E c \in Threads, t \in 1..MaxTransitions : FinalizeEnter(c, t)
    \/ \E c \in Threads : FinalizeExit(c)

SpecService == ServiceInit /\ [][ServiceNext]_vars

\* The scheduler runs every worker that can take a step, and the caller of
\* Execute(cb) goes on to <-cb.exeDone.
WorkerFairness ==
    \A t \in 1..MaxTransitions :
        /\ WF_vars(WorkerValidate(t))
        /\ WF_vars(WorkerComplete(t))
        /\ WF_vars(ReceiveExeDone(t))

SpecServiceFair == ServiceInit /\ [][ServiceNext]_vars /\ WorkerFairness

(* Claims about the transition life cycle, checked under SpecService *)

Ids == 1..Len(trs)

\* C11: whatever the interleaving of callers and workers, the OnValidate of
\* a transition fires before its OnExecute and each fires at most once: at
\* every moment OnExecute has fired at most once and no more often than
\* OnValidate, which has fired at most once, and every OnExecute made one
\* send on exeDone.
C11_ValidateBeforeExecuteOnce ==
    \A t \in Ids :
        /\ trs[t].nValidate <= 1
        /\ trs[t].nExecute <= trs[t].nValidate
        /\ trs[t].cb.exeDone.sending + trs[t].cb.exeDone.received = trs[t].nExecute

\* Both callbacks of a transition have fired, and an Execute called on it
\* again was refused.
C11_Witness ==
    /\ svcRet.op = "Execute" /\ svcRet.err = ErrInvalidState
    /\ svcRet.t \in Ids
    /\ trs[svcRet.t].nValidate = 1 /\ trs[svcRet.t].nExecute = 1

\* The last call was a Finalize that returned; HeightTaken: another
\* transition of the height of its transition is Finalized.
FinalizeReturned == svcRet.op = "Finalize" /\ svcRet.t \in Ids

HeightTaken ==
    \E w \in Ids :
        /\ w # svcRet.t
        /\ trs[w].height = trs[svcRet.t].height
        /\ trs[w].state = "Finalized"

\* C12: at most one transition per height is Finalized; the Finalize calls
\* are serialized (one thread at a time holds the lock), the step that
\* finalizes a transition leaves every other transition of its height
\* Discarded, and an executed candidate whose Finalize returns after another
\* transition of its height won is Discarded and not Finalized.
C12_OneFinalizedPerHeight ==
    /\ [](/\ \A t, u \in Ids :
                (t # u /\ trs[t].state = "Finalized" /\ trs[u].state = "Finalized")
                => trs[t].height # trs[u].height
          /\ \A c, d \in Threads :
                (fin[c].pc = "locked" /\ fin[d].pc = "locked") => c = d
          /\ (FinalizeReturned /\ HeightTaken) =>
                /\ svcRet.err \in LifecycleErrors
                /\ svcRet.pre => trs[svcRet.t].state = "Discarded")
    /\ [][\A w \in Ids :
             (trs[w].state # "Finalized" /\ trs'[w].state = "Finalized") =>
                \A u \in Ids :
                    (u # w /\ trs[u].height = trs[w].height)
                    => trs'[u].state = "Discarded"]_vars

\* Of two executed candidates of one height, one is Finalized and the
\* Finalize of the other has returned an error, leaving it Discarded.
C12_Witness ==
    /\ FinalizeReturned /\ HeightTaken
    /\ svcRet.err = ErrNotExecuted
    /\ trs[svcRet.t].state = "Discarded"
    /\ trs[svcRet.t].nExecute = 1
    /\ trs[svcRet.t].worker = "done"

\* C13: a Finalize on a transition of a height at which another transition
\* is already Finalized fails: the current parent is the one from before the
\* call and is Finalized, and the committed state is the result of the
\* current parent, which extends the result of the transition finalized
\* first at that height.
C13_SecondFinalizeFails ==
    /\ Tr(trs, sm.current).state = "Finalized"
    /\ sm.committed = StateAfter(trs, sm.current)
    /\ (FinalizeReturned /\ HeightTaken) =>
          /\ svcRet.err \in LifecycleErrors
          /\ trs[svcRet.t].state # "Finalized"
          /\ sm.current = svcRet.before
          /\ \A w \in Ids :
                (trs[w].height = trs[svcRet.t].height /\ trs[w].state = "Finalized")
                => IsPrefix(StateAfter(trs, w), sm.committed)

\* A transition proposed at a height that was already finalized has been
\* executed, and its Finalize was refused as superseded.
C13_Witness ==
    /\ FinalizeReturned /\ HeightTaken
    /\ svcRet.pre
    /\ svcRet.err = ErrSuperseded
    /\ sm.current # svcRet.t
    /\ StateAfter(trs, svcRet.t) # sm.committed

\* C14: a Finalize on a transition that is not Executed returns the
\* not-executed error, leaves the current parent and the committed state as
\* they were, and finalizes nothing.
C14_FinalizeNeedsExecuted ==
    (FinalizeReturned /\ ~svcRet.pre) =>
        /\ svcRet.err = ErrNotExecuted
        /\ sm.current = svcRet.before
        /\ sm.committed = StateAfter(trs, svcRet.before)
        /\ trs[svcRet.t].nExecute = 0 => trs[svcRet.t].state # "Finalized"

\* Finalize has been refused on a transition whose execution is pending.
C14_Witness ==
    /\ FinalizeReturned /\ ~svcRet.pre
    /\ svcRet.err = ErrNotExecuted
    /\ trs[svcRet.t].worker = "executing"
    /\ trs[svcRet.t].nExecute = 0

\* C15: ProposeTransition on a parent that is not Finalized returns the
\* parent-not-finalized lifecycle error and creates no transition.
C15_ProposeNeedsFinalizedParent ==
    (svcRet.op = "ProposeTransition" /\ ~svcRet.pre) =>
        /\ svcRet.err = ErrParentNotFinalized
        /\ svcRet.err \in LifecycleErrors
        /\ Len(trs) = svcRet.before

\* ProposeTransition has been refused on a parent that is executed but not
\* finalized.
C15_Witness ==
    /\ svcRet.op = "ProposeTransition" /\ ~svcRet.pre
    /\ svcRet.err = ErrParentNotFinalized
    /\ svcRet.t \in Ids
    /\ trs[svcRet.t].state = "Executed"
    /\ Len(trs) = svcRet.before

\* C18: a transition discarded while its execution is pending stays
\* Discarded: the completion of the execution is dropped, so the transition
\* has no result, fires no OnExecute, and never is the current parent; the
\* committed state stays the result of the current parent.
C18_DiscardWhilePendingIsSafe ==
    /\ \A t \in Ids :
          /\ trs[t].wasDiscarded =>
                /\ trs[t].state = "Discarded"
                /\ Result(trs, t) = None
                /\ sm.current # t
          /\ trs[t].worker = "dropped" =>
                /\ trs[t].state = "Discarded"
                /\ trs[t].nExecute = 0
    /\ sm.committed = StateAfter(trs, sm.current)

\* The execution of a transition completed after a sibling was finalized,
\* and was dropped.
C18_Witness ==
    \E t, w \in Ids :
        /\ t # w
        /\ trs[t].height = trs[w].height
        /\ trs[w].state = "Finalized"
        /\ sm.current = w
        /\ trs[t].worker = "dropped"
        /\ trs[t].nValidate = 1

\* C19: under fair scheduling of the workers, every execution started by an
\* accepted Execute on a transition leads to the OnExecute of the transition,
\* whose signal the caller blocked on exeDone receives, unless the
\* transition is discarded.
C19_ExecuteEventuallyFires ==
    \A t \in 1..MaxTransitions :
        (t <= Len(trs) /\ trs[t].worker \in InFlight)
        ~> (/\ t <= Len(trs)
            /\ \/ trs[t].nExecute >= 1 /\ trs[t].cb.exeDone.received >= 1
               \/ trs[t].state = "Discarded")

\* The execution of a transition built for replay has completed and its
\* caller has been released.
C19_Witness ==
    \E t \in Ids :
        /\ trs[t].state = "Executed"
        /\ trs[t].cb.exeDone.received = 1
        /\ trs[t].worker = "done"
        /\ trs[t].txs \in TxBatches
        /\ svcRet.op = "Execute" /\ svcRet.t = t /\ svcRet.err = ErrNil

----------------------------------------------------------------------------
(* The stake of an account under SetStake and SlashStake.                  *)

\* The record of a call: its name, whether its receiver was the snapshot,
\* its arguments, what it returned and the receiver as it was before.
Called(op, onSnap, in, r, before) ==
    [op |-> op, onSnap |-> onSnap, in |-> in, err |-> r.err, panic |-> r.panic,
     amount |-> r.amount, expire |-> r.expire, tl |-> r.tl, before |-> before]

StakeInit ==
    /\ acct = newAccount(TheOwner)
    /\ snap = NoSnapshot /\ aret = NoAccountCall /\ plan = NoPlan
    /\ smsg = newVoteMessage /\ sret = NoCall /\ scnt = NoCalls
    /\ block = NoBlock /\ vl = emptyVoteList /\ vret = NotVerified
    /\ msgs = <<>> /\ nret = NotBuilt
    /\ cvl = None /\ wire = NoWire /\ cret = NotReceived
    /\ trs = <<>> /\ sm = NewManager /\ fin = NoFinalize /\ svcRet = NoServiceCall

StakeSetStake ==
    \E v \in (0 - 1)..MaxStake :
        LET r == SetStake(acct, v)
        IN /\ acct' = r.a
           /\ aret' = Called("SetStake", FALSE, <<v>>, r, acct)
           /\ UNCHANGED <<snap, plan>>
           /\ UNCHANGED <<signedVars, verifyVars, newVars, codecVars, svcVars>>

StakeSlashStake ==
    \E amount \in (0 - 1)..(MaxStake + 1) :
        /\ acct.stake - amount <= MaxStake
        /\ LET r == SlashStake(acct, amount)
           IN /\ acct' = r.a
              /\ aret' = Called("SlashStake", FALSE, <<amount>>, r, acct)
              /\ UNCHANGED <<snap, plan>>
              /\ UNCHANGED <<signedVars, verifyVars, newVars, codecVars, svcVars>>

StakeNext ==
    \/ StakeSetStake
    \/ StakeSlashStake

SpecStake == StakeInit /\ [][StakeNext]_vars

\* C22: on a writable account the stake is never negative; SetStake(v) with
\* v < 0 and SlashStake(amount) with amount above the stake return an error
\* and leave the stake as it was, and every other call returns no error and
\* sets the stake to v, respectively to the stake less amount.
C22_StakeNeverNegative ==
    /\ acct.stake >= 0
    /\ aret.op = "SetStake" =>
          IF aret.in[1] < 0
          THEN aret.err # ErrNil /\ acct.stake = aret.before.stake
          ELSE aret.err = ErrNil /\ acct.stake = aret.in[1]
    /\ aret.op = "SlashStake" =>
          IF aret.in[1] > aret.before.stake
          THEN aret.err # ErrNil /\ acct.stake = aret.before.stake
          ELSE aret.err = ErrNil /\ acct.stake = aret.before.stake - aret.in[1]

\* SlashStake of more than a positive stake has been refused.
C22_Witness ==
    /\ aret.op = "SlashStake"
    /\ aret.before.stake > 0
    /\ aret.in[1] > aret.before.stake
    /\ aret.err = ErrNegativeStake
    /\ acct.stake = aret.before.stake

----------------------------------------------------------------------------
(* RemoveUnstaking on an account that holds unstakes.                      *)

\* The lists of at most n records of S.
RECURSIVE ListsUpTo(_, _)
ListsUpTo(S, n) ==
    IF n = 0 THEN {<<>>}
    ELSE LET shorter == ListsUpTo(S, n - 1)
         IN shorter \cup {Append(l, x) : l \in shorter, x \in S}

\* The sum of the amounts of the unstakes.
RECURSIVE SumOfAmounts(_)
SumOfAmounts(us) == IF us = <<>> THEN 0 ELSE us[1].Amount + SumOfAmounts(Tail(us))

\* Unstakes are kept in the order of their expire heights.
UnstakeLists ==
    {l \in ListsUpTo({Unstake(m, e) : m \in 1..MaxAmount, e \in 1..MaxExpire},
                     MaxUnstakes) :
        \A i \in 1..(Len(l) - 1) : l[i].ExpireHeight <= l[i + 1].ExpireHeight}

UnstakingInit ==
    /\ \E us \in UnstakeLists : acct = [newAccount(TheOwner) EXCEPT !.unstakes = us]
    /\ snap = NoSnapshot /\ aret = NoAccountCall /\ plan = NoPlan
    /\ smsg = newVoteMessage /\ sret = NoCall /\ scnt = NoCalls
    /\ block = NoBlock /\ vl = emptyVoteList /\ vret = NotVerified
    /\ msgs = <<>> /\ nret = NotBuilt
    /\ cvl = None /\ wire = NoWire /\ cret = NotReceived
    /\ trs = <<>> /\ sm = NewManager /\ fin = NoFinalize /\ svcRet = NoServiceCall

UnstakingRemoveUnstaking ==
    \E height \in 1..(MaxExpire + 1) :
        LET r == RemoveUnstaking(acct, height)
        IN /\ acct' = r.a
           /\ aret' = Called("RemoveUnstaking", FALSE, <<height>>, r, acct)
           /\ UNCHANGED <<snap, plan>>
           /\ UNCHANGED <<signedVars, verifyVars, newVars, codecVars, svcVars>>

\* UpdateUnstake with room for MaxUnstakes unstakes; a positive stakeInc takes
\* no more than the account is unstaking, a negative one leaves no unstake
\* above MaxAmount.
UnstakingUpdateUnstake ==
    \E stakeInc \in ((0 - MaxAmount)..MaxAmount) \ {0}, expireHeight \in 1..MaxExpire :
        LET r == UpdateUnstake(acct, stakeInc, expireHeight, MaxUnstakes)
        IN /\ \A i \in 1..Len(r.a.unstakes) : r.a.unstakes[i].Amount <= MaxAmount
           /\ stakeInc > 0 =>
                 stakeInc <= SumOfAmounts(acct.unstakes)
           /\ acct' = r.a
           /\ aret' = Called("UpdateUnstake", FALSE,
                             <<stakeInc, expireHeight, MaxUnstakes>>, r, acct)
           /\ UNCHANGED <<snap, plan>>
           /\ UNCHANGED <<signedVars, verifyVars, newVars, codecVars, svcVars>>

UnstakingNext ==
    \/ UnstakingRemoveUnstaking
    \/ UnstakingUpdateUnstake

SpecUnstaking == UnstakingInit /\ [][UnstakingNext]_vars

\* The positions of the unstakes of us that expire at the height.
UnstakesAt(us, height) == {i \in 1..Len(us) : us[i].ExpireHeight = height}

\* C26: RemoveUnstaking(height) returns no error exactly when one unstake
\* expires at the height; it then removes that unstake and returns its
\* amount; when it returns an error the unstakes are left as they were.
C26_RemovesOneOrNothing ==
    aret.op = "RemoveUnstaking" =>
        LET at == UnstakesAt(aret.before.unstakes, aret.in[1])
        IN /\ (aret.err = ErrNil) <=> (Cardinality(at) = 1)
           /\ aret.err = ErrNil =>
                 \E i \in at :
                    /\ acct.unstakes = WithoutAt(aret.before.unstakes, i)
                    /\ aret.amount = aret.before.unstakes[i].Amount
           /\ aret.err # ErrNil => acct.unstakes = aret.before.unstakes

----------------------------------------------------------------------------
(* Setting the bonds of an account: GetUnbondingInfo computes the unbonds  *)
(* to add and to modify, SetBonds stores the new bonds and UpdateUnbonds   *)
(* applies the computed unbonds.                                           *)

BondTargets == {"hxA", "hxB"}

\* No two entries of the list are for the same address.
OnePerAddress(l) ==
    \A i, j \in 1..Len(l) : i # j => l[i].Address # l[j].Address

BondLists ==
    {l \in ListsUpTo({Bond(x, v) : x \in BondTargets, v \in 1..MaxBond},
                     Cardinality(BondTargets)) : OnePerAddress(l)}

\* UpdateUnbonds leaves unbonds of value 0 in the list, so an account may
\* hold some.
UnbondLists ==
    {l \in ListsUpTo({Unbond(x, v, e) : x \in BondTargets, v \in 0..MaxBond,
                                        e \in 1..MaxExpire},
                     Cardinality(BondTargets)) : OnePerAddress(l)}

\* An account that holds the bonds and the unbonds.
accountWith(bs, us) ==
    [newAccount(TheOwner) EXCEPT !.bonds = bs, !.bonding = GetBondAmount(bs),
                                 !.unbonds = us, !.unbonding = GetUnbondAmount(us)]

RebondInit ==
    /\ \E bs \in BondLists, us \in UnbondLists : acct = accountWith(bs, us)
    /\ \E bonds \in BondLists, h \in MaxExpire..(MaxExpire + 1) :
          plan = [step |-> "start", bonds |-> bonds, h |-> h,
                  ubToAdd |-> <<>>, ubToMod |-> <<>>, old |-> acct]
    /\ snap = NoSnapshot /\ aret = NoAccountCall
    /\ smsg = newVoteMessage /\ sret = NoCall /\ scnt = NoCalls
    /\ block = NoBlock /\ vl = emptyVoteList /\ vret = NotVerified
    /\ msgs = <<>> /\ nret = NotBuilt
    /\ cvl = None /\ wire = NoWire /\ cret = NotReceived
    /\ trs = <<>> /\ sm = NewManager /\ fin = NoFinalize /\ svcRet = NoServiceCall

RebondGetUnbondingInfo ==
    /\ plan.step = "start"
    /\ LET r == GetUnbondingInfo(acct, plan.bonds, plan.h)
       IN /\ plan' = [plan EXCEPT !.step = "planned", !.ubToAdd = r.ubToAdd,
                                  !.ubToMod = r.ubToMod]
          /\ aret' = Called("GetUnbondingInfo", FALSE, <<plan.bonds, plan.h>>,
                            Returns(acct, ErrNil, 0, 0, <<>>), acct)
    /\ UNCHANGED <<acct, snap>>
    /\ UNCHANGED <<signedVars, verifyVars, newVars, codecVars, svcVars>>

RebondSetBonds ==
    /\ plan.step = "planned"
    /\ LET r == SetBonds(acct, plan.bonds)
       IN /\ acct' = r.a
          /\ aret' = Called("SetBonds", FALSE, <<plan.bonds>>, r, acct)
    /\ plan' = [plan EXCEPT !.step = "bonded"]
    /\ UNCHANGED snap
    /\ UNCHANGED <<signedVars, verifyVars, newVars, codecVars, svcVars>>

RebondUpdateUnbonds ==
    /\ plan.step = "bonded"
    /\ LET r == UpdateUnbonds(acct, plan.ubToAdd, plan.ubToMod)
       IN /\ acct' = r.a
          /\ aret' = Called("UpdateUnbonds", FALSE, <<plan.ubToAdd, plan.ubToMod>>,
                            r, acct)
    /\ plan' = [plan EXCEPT !.step = "updated"]
    /\ UNCHANGED snap
    /\ UNCHANGED <<signedVars, verifyVars, newVars, codecVars, svcVars>>

RebondNext ==
    \/ RebondGetUnbondingInfo
    \/ RebondSetBonds
    \/ RebondUpdateUnbonds

SpecRebond == RebondInit /\ [][RebondNext]_vars

\* The elements of a list.
Entries(l) == {l[i] : i \in 1..Len(l)}

\* C23: after UpdateUnbonds(ubToAdd, ubToMod) no unbond of value 0 remains
\* in the unbonds of the account, and a remove timer job has been reported
\* for the expire height of every modification of value 0.
C23_ZeroUnbondsRemoved ==
    aret.op = "UpdateUnbonds" =>
        /\ \A ub \in Entries(acct.unbonds) : ub.Value # 0
        /\ \A mod \in Entries(aret.in[2]) :
              mod.Value = 0 =>
                  TimerJobInfo(JobTypeRemove, mod.Expire) \in Entries(aret.tl)

\* The value bonded to, respectively unbonding from, the address: 0 when the
\* list has no entry for it.
ValueFor(l, x) == SumOfValues(SelectSeq(l, LAMBDA e : e.Address = x))

\* By how much the new bonds lower the bond to the address.
Decrease(x) == ValueFor(plan.old.bonds, x) - ValueFor(plan.bonds, x)

\* C27: GetUnbondingInfo leaves the account as it was; once SetBonds and
\* UpdateUnbonds have applied its result, the unbond value of every address
\* whose bond went down by d > 0 (dropped bonds included) is up by exactly d
\* and no address has more than one unbond.
C27_UnbondsTakeTheDecrease ==
    /\ plan.step = "planned" => acct = plan.old
    /\ plan.step = "updated" =>
          /\ \A x \in BondTargets :
                Decrease(x) > 0 =>
                    ValueFor(acct.unbonds, x)
                        = ValueFor(plan.old.unbonds, x) + Decrease(x)
          /\ OnePerAddress(acct.unbonds)
          /\ acct.bonds = plan.bonds

\* The bonds have been set with one bond lowered whose address already had
\* an unbond, and another bond dropped whose address had none.
C27_Witness ==
    /\ plan.step = "updated"
    /\ aret.op = "UpdateUnbonds"
    /\ \E x, y \in BondTargets :
          /\ x # y
          /\ Decrease(x) > 0
          /\ ValueFor(plan.bonds, x) > 0
          /\ ValueFor(plan.old.unbonds, x) > 0
          /\ ValueFor(acct.unbonds, x) = ValueFor(plan.old.unbonds, x) + Decrease(x)
          /\ ValueFor(plan.old.bonds, y) > 0
          /\ FirstAt(plan.bonds, y) = 0
          /\ FirstAt(plan.old.unbonds, y) = 0
          /\ ValueFor(acct.unbonds, y) = ValueFor(plan.old.bonds, y)

----------------------------------------------------------------------------
(* The totals of an account (delegating, bonding, unbonding) under the     *)
(* operations that change its delegations, bonds and unbonds.              *)

DelegationLists ==
    ListsUpTo({Delegation("hxD", v) : v \in 1..MaxBond}, 1)

\* What a caller passes to UpdateUnbonds: unbonds to add, and unbonds to
\* modify, whose value may be 0.
UnbondsToAdd ==
    ListsUpTo({Unbond(x, MaxBond, e) : x \in BondTargets, e \in 1..MaxExpire}, 1)
UnbondsToMod ==
    ListsUpTo({Unbond(x, v, e) : x \in BondTargets, v \in 0..1,
                                 e \in 1..MaxExpire}, 1)

\* A slash takes half or all.
SlashRatios == {50, 100}

TotalsInit ==
    /\ acct = newAccount(TheOwner)
    /\ snap = NoSnapshot /\ aret = NoAccountCall /\ plan = NoPlan
    /\ smsg = newVoteMessage /\ sret = NoCall /\ scnt = NoCalls
    /\ block = NoBlock /\ vl = emptyVoteList /\ vret = NotVerified
    /\ msgs = <<>> /\ nret = NotBuilt
    /\ cvl = None /\ wire = NoWire /\ cret = NotReceived
    /\ trs = <<>> /\ sm = NewManager /\ fin = NoFinalize /\ svcRet = NoServiceCall

\* The account and the record of the call after a call that returned r; the
\* account as it was before the call is not kept.
TotalsReturn(op, in, r) ==
    /\ acct' = r.a
    /\ aret' = Called(op, FALSE, in, r, NoAccountCall.before)
    /\ UNCHANGED <<snap, plan>>
    /\ UNCHANGED <<signedVars, verifyVars, newVars, codecVars, svcVars>>

TotalsSetDelegation ==
    \E ds \in DelegationLists :
        TotalsReturn("SetDelegation", <<ds>>, SetDelegation(acct, ds))

TotalsSetBonds ==
    \E bonds \in BondLists :
        TotalsReturn("SetBonds", <<bonds>>, SetBonds(acct, bonds))

TotalsUpdateUnbonds ==
    \E ubToAdd \in UnbondsToAdd, ubToMod \in UnbondsToMod :
        /\ Len(acct.unbonds) + Len(ubToAdd) <= MaxUnbonds
        /\ TotalsReturn("UpdateUnbonds", <<ubToAdd, ubToMod>>,
                        UpdateUnbonds(acct, ubToAdd, ubToMod))

TotalsRemoveUnbonding ==
    \E height \in 1..MaxExpire :
        TotalsReturn("RemoveUnbonding", <<height>>, RemoveUnbonding(acct, height))

TotalsSlashBond ==
    \E x \in BondTargets, ratio \in SlashRatios :
        TotalsReturn("SlashBond", <<x, ratio>>, SlashBond(acct, x, ratio))

TotalsSlashUnbond ==
    \E x \in BondTargets, ratio \in SlashRatios :
        TotalsReturn("SlashUnbond", <<x, ratio>>, SlashUnbond(acct, x, ratio))

TotalsNext ==
    \/ TotalsSetDelegation
    \/ TotalsSetBonds
    \/ TotalsUpdateUnbonds
    \/ TotalsRemoveUnbonding
    \/ TotalsSlashBond
    \/ TotalsSlashUnbond

SpecTotals == TotalsInit /\ [][TotalsNext]_vars

\* C24: whatever calls were made, delegating is the sum of the delegations,
\* bonding the sum of the bonds and unbonding the sum of the unbonds.
C24_TotalsAreSums ==
    /\ acct.delegating = SumOfValues(acct.delegations)
    /\ acct.bonding = SumOfValues(acct.bonds)
    /\ acct.unbonding = SumOfValues(acct.unbonds)

\* An unbond of an account that delegates, bonds and unbonds has been
\* slashed by a positive amount, leaving a positive total.
C24_Witness ==
    /\ aret.op = "SlashUnbond"
    /\ aret.amount > 0
    /\ acct.unbonding > 0
    /\ Len(acct.unbonds) = MaxUnbonds
    /\ acct.bonding > 0
    /\ acct.delegating > 0

----------------------------------------------------------------------------
(* An account and the snapshot GetSnapshot returned: every operation that  *)
(* writes to an account is called on the account or on the snapshot.       *)

\* An account that has staked, delegated and bonded, with an unstake and an
\* unbond under way.
accountInUse ==
    [newAccount(TheOwner) EXCEPT
        !.stake = 1,
        !.unstakes = <<Unstake(1, 1)>>,
        !.delegations = <<Delegation("hxD", 1)>>, !.delegating = 1,
        !.bonds = <<Bond("hxA", 1)>>, !.bonding = 1,
        !.unbonds = <<Unbond("hxA", 1, 1)>>, !.unbonding = 1]

SnapshotInit ==
    /\ acct = accountInUse
    /\ snap = NoSnapshot /\ aret = NoAccountCall /\ plan = NoPlan
    /\ smsg = newVoteMessage /\ sret = NoCall /\ scnt = NoCalls
    /\ block = NoBlock /\ vl = emptyVoteList /\ vret = NotVerified
    /\ msgs = <<>> /\ nret = NotBuilt
    /\ cvl = None /\ wire = NoWire /\ cret = NotReceived
    /\ trs = <<>> /\ sm = NewManager /\ fin = NoFinalize /\ svcRet = NoServiceCall

\* The receiver of a call: the snapshot, once one was taken, or the account.
Receivers == {FALSE} \cup (IF snap.taken THEN {TRUE} ELSE {})
Receiver(onSnap) == IF onSnap THEN snap.obj ELSE acct

\* The receiver and the record of the call after a call that returned r; the
\* receiver as it was before the call is not kept.
SnapshotReturn(op, onSnap, in, r) ==
    /\ IF onSnap
       THEN snap' = [snap EXCEPT !.obj = r.a] /\ UNCHANGED acct
       ELSE acct' = r.a /\ UNCHANGED snap
    /\ aret' = Called(op, onSnap, in, r, NoAccountCall.before)
    /\ UNCHANGED plan
    /\ UNCHANGED <<signedVars, verifyVars, newVars, codecVars, svcVars>>

SnapshotGetSnapshot ==
    \E onSnap \in Receivers :
        LET r == GetSnapshot(Receiver(onSnap))
        IN /\ snap' = IF r.same THEN snap
                      ELSE [taken |-> TRUE, obj |-> r.a, at |-> r.a]
           /\ aret' = [same |-> r.same]
                      @@ Called("GetSnapshot", onSnap, <<>>,
                                Returns(r.a, ErrNil, 0, 0, <<>>), NoAccountCall.before)
           /\ UNCHANGED <<acct, plan>>
           /\ UNCHANGED <<signedVars, verifyVars, newVars, codecVars, svcVars>>

SnapshotSetStake ==
    \E onSnap \in Receivers, v \in {1} :
        SnapshotReturn("SetStake", onSnap, <<v>>, SetStake(Receiver(onSnap), v))

SnapshotSlashStake ==
    \E onSnap \in Receivers, amount \in {1} :
        SnapshotReturn("SlashStake", onSnap, <<amount>>,
                       SlashStake(Receiver(onSnap), amount))

SnapshotSetDelegation ==
    \E onSnap \in Receivers, ds \in {<<>>} :
        SnapshotReturn("SetDelegation", onSnap, <<ds>>,
                       SetDelegation(Receiver(onSnap), ds))

SnapshotSetBonds ==
    \E onSnap \in Receivers, bonds \in {<<Bond("hxA", 1)>>} :
        SnapshotReturn("SetBonds", onSnap, <<bonds>>,
                       SetBonds(Receiver(onSnap), bonds))

SnapshotUpdateUnbonds ==
    \E onSnap \in Receivers, ubToAdd \in {<<Unbond("hxA", 1, 1)>>} :
        /\ Receiver(onSnap).unbonds = <<>>
        /\ SnapshotReturn("UpdateUnbonds", onSnap, <<ubToAdd, <<>>>>,
                          UpdateUnbonds(Receiver(onSnap), ubToAdd, <<>>))

SnapshotRemoveUnbonding ==
    \E onSnap \in Receivers, height \in {1} :
        SnapshotReturn("RemoveUnbonding", onSnap, <<height>>,
                       RemoveUnbonding(Receiver(onSnap), height))

SnapshotRemoveUnstaking ==
    \E onSnap \in Receivers, height \in {1} :
        SnapshotReturn("RemoveUnstaking", onSnap, <<height>>,
                       RemoveUnstaking(Receiver(onSnap), height))

SnapshotSlashBond ==
    \E onSnap \in Receivers, x \in {"hxA"}, ratio \in SlashRatios :
        SnapshotReturn("SlashBond", onSnap, <<x, ratio>>,
                       SlashBond(Receiver(onSnap), x, ratio))

SnapshotSlashUnbond ==
    \E onSnap \in Receivers, x \in {"hxA"}, ratio \in SlashRatios :
        SnapshotReturn("SlashUnbond", onSnap, <<x, ratio>>,
                       SlashUnbond(Receiver(onSnap), x, ratio))

SnapshotClear ==
    \E onSnap \in Receivers :
        SnapshotReturn("Clear", onSnap, <<>>, Clear(Receiver(onSnap)))

SnapshotSetAddress ==
    \E onSnap \in Receivers, addr \in {Some(TheOwner)} :
        SnapshotReturn("SetAddress", onSnap, <<addr>>,
                       SetAddress(Receiver(onSnap), addr))

SnapshotSet ==
    \E onSnap \in Receivers, other \in {accountInUse} :
        SnapshotReturn("Set", onSnap, <<other>>, Set(Receiver(onSnap), other))

\* The decoder holds the fields of an account in use; it decodes all of
\* them, or fails at once, or fails after the stake and the unstakes.
SnapshotRLPDecodeFields ==
    \E onSnap \in Receivers, d \in {accountInUse},
       k \in {0, Len(decodedFields) - 6, Len(decodedFields)} :
        SnapshotReturn("RLPDecodeFields", onSnap, <<d, k>>,
                       RLPDecodeFields(Receiver(onSnap), d, k))

\* UpdateUnstake with room for one unstake, of amount 1: it adds the unstake
\* to an account that has none, or takes away the one it has.
SnapshotUpdateUnstake ==
    \E onSnap \in Receivers, stakeInc \in {0 - 1, 1} :
        LET r == UpdateUnstake(Receiver(onSnap), stakeInc, 1, 1)
        IN /\ \A i \in 1..Len(r.a.unstakes) : r.a.unstakes[i].Amount <= 1
           /\ stakeInc > 0 => Receiver(onSnap).unstakes # <<>>
           /\ SnapshotReturn("UpdateUnstake", onSnap, <<stakeInc, 1, 1>>, r)

SnapshotNext ==
    \/ SnapshotGetSnapshot
    \/ SnapshotSetStake
    \/ SnapshotSlashStake
    \/ SnapshotSetDelegation
    \/ SnapshotSetBonds
    \/ SnapshotUpdateUnbonds
    \/ SnapshotRemoveUnbonding
    \/ SnapshotRemoveUnstaking
    \/ SnapshotSlashBond
    \/ SnapshotSlashUnbond
    \/ SnapshotClear
    \/ SnapshotSetAddress
    \/ SnapshotSet
    \/ SnapshotRLPDecodeFields
    \/ SnapshotUpdateUnstake

SpecSnapshot == SnapshotInit /\ [][SnapshotNext]_vars

\* C25: whatever is called on the account or on the snapshot, every field of
\* the snapshot has the value it had when the snapshot was taken; and
\* GetSnapshot of a read-only account returns that account.
C25_SnapshotNeverChanges ==
    /\ snap.taken => snap.obj = snap.at
    /\ (aret.op = "GetSnapshot" /\ aret.onSnap) => aret.same


====
